---- MODULE Spec2Model ----
(***************************************************************************)
(* Cargo stowage back end (srisrihari/ISS_AI, backend/app): the item       *)
(* store, the placement planner, the place / retrieve operations, the      *)
(* retrieval planners, the time simulation and the waste services.         *)
(*                                                                         *)
(* Lengths are whole centimetres, instants are whole ticks (TicksPerDay    *)
(* ticks make one day).  A nullable column holds None; a nullable number   *)
(* or triple is the empty tuple when NULL and a non-empty tuple otherwise. *)
(***************************************************************************)
EXTENDS Integers, Sequences, FiniteSets, TLC

VARIABLES
    items,   \* table "items": id -> row (database.py, class Item)
    logs,    \* table "logs": rows in insertion order (database.py, class Log)
    wall,    \* the wall clock read by datetime.utcnow() / datetime.now()
    req,     \* the request being served (inputs of a planner call)
    resp     \* the response of the last operation, with its inputs

vars == <<items, logs, wall, req, resp>>

(***************************************************************************)
(* Bounds of the model.                                                    *)
(***************************************************************************)
MaxItems == 2        \* items of the store in the state-machine specifications
MaxUses == 2         \* largest usage limit of an imported item
MaxLogs == 2         \* log rows after which no logging operation is started
MaxPlanItems == 3    \* items of one placement request
MaxDim == 3          \* largest width / depth of a requested item or container
MaxStack == 3        \* items of an arrangement handed to the retrieval planners
MaxWall == 3         \* last instant of the wall clock

None == "None"
NoPosition == <<>>

Min(a, b) == IF a < b THEN a ELSE b
Max(a, b) == IF a > b THEN a ELSE b

SeqToSet(s) == {s[n] : n \in 1..Len(s)}

(***************************************************************************)
(* list.sort(key=...): a stable sort.  The list is a sequence of           *)
(* <<key, value>> pairs whose keys are tuples of integers compared as      *)
(* Python compares tuples; reverse=True is a sort on the negated key,      *)
(* which keeps equal elements in their original order as Python does.      *)
(***************************************************************************)
RECURSIVE LexLess(_, _)
LexLess(a, b) ==
    IF a = <<>> \/ b = <<>> THEN Len(a) < Len(b)
    ELSE IF a[1] # b[1] THEN a[1] < b[1]
    ELSE LexLess(Tail(a), Tail(b))

RECURSIVE InsertStable(_, _)
InsertStable(s, p) ==
    IF s = <<>> THEN <<p>>
    ELSE IF LexLess(p[1], s[1][1]) THEN <<p>> \o s
    ELSE <<s[1]>> \o InsertStable(Tail(s), p)

RECURSIVE SortPairs(_)
SortPairs(s) ==
    IF s = <<>> THEN <<>>
    ELSE InsertStable(SortPairs(SubSeq(s, 1, Len(s) - 1)), s[Len(s)])

Values(pairs) == [n \in 1..Len(pairs) |-> pairs[n][2]]

\* the same order: the variant C8 refutes
C8_SameOrder(s) == s

Reversed(s) == [n \in 1..Len(s) |-> s[Len(s) + 1 - n]]

(***************************************************************************)
(* Boxes.  A box is its origin and its extent; Cells is the set of unit    *)
(* cells of a numpy slice [i:i+w, j:j+d, k:k+h] of an array of shape       *)
(* (W, D, H): a bound beyond the array is clipped to it, and a negative    *)
(* bound counts from the end of the axis.                                  *)
(***************************************************************************)
Cells(p, w, d, h, W, D, H) ==
    LET Bound(b, N) == IF b < 0 THEN Max(b + N, 0) ELSE Min(b, N)
    IN {c \in (Bound(p[1], W)..(Bound(p[1] + w, W) - 1))
              \X (Bound(p[2], D)..(Bound(p[2] + d, D) - 1))
              \X (Bound(p[3], H)..(Bound(p[3] + h, H) - 1)) : TRUE}

\* strict intersection of [a1, a2) and [b1, b2)
IntervalsOverlap(a1, a2, b1, b2) == a1 < b2 /\ b1 < a2

BoxesOverlap(s1, e1, s2, e2) ==
    /\ IntervalsOverlap(s1[1], e1[1], s2[1], e2[1])
    /\ IntervalsOverlap(s1[2], e1[2], s2[2], e2[2])
    /\ IntervalsOverlap(s1[3], e1[3], s2[3], e2[3])

BoxInside(s, e, W, D, H) ==
    /\ s[1] >= 0 /\ s[2] >= 0 /\ s[3] >= 0
    /\ e[1] <= W /\ e[2] <= D /\ e[3] <= H

(***************************************************************************)
(* PlacementService (services/placement_service.py).                       *)
(***************************************************************************)
_convert_item_to_internal(item) ==
    [itemId |-> item.itemId, name |-> item.name,
     width |-> item.width, depth |-> item.depth, height |-> item.height,
     priority |-> item.priority, usageLimit |-> item.usageLimit,
     preferredZone |-> item.preferredZone, placed |-> FALSE]

\* "space" is the set of the True cells of the boolean array
_convert_container_to_internal(container) ==
    [containerId |-> container.containerId, zone |-> container.zone,
     width |-> container.width, depth |-> container.depth,
     height |-> container.height, space |-> {}, items |-> <<>>]

Orientations(item) ==
    << <<item.width, item.depth, item.height>>,
       <<item.depth, item.width, item.height>>,
       <<item.width, item.height, item.depth>>,
       <<item.height, item.width, item.depth>>,
       <<item.depth, item.height, item.width>>,
       <<item.height, item.depth, item.width>> >>

\* the three nested range() loops: i (width) outermost, k (height) innermost
FirstFit(container, w, d, h) ==
    LET free == {p \in (0..(container.width - w)) \X (0..(container.depth - d))
                       \X (0..(container.height - h)) :
                    Cells(p, w, d, h, container.width, container.depth,
                          container.height) \cap container.space = {}}
    IN IF free = {} THEN NoPosition
       ELSE CHOOSE p \in free : \A q \in free : LexLess(p, q) \/ p = q

RECURSIVE FindFromOrientation(_, _, _)
FindFromOrientation(os, n, container) ==
    IF n > Len(os) THEN NoPosition
    ELSE LET w == os[n][1]
             d == os[n][2]
             h == os[n][3]
         IN IF w > container.width \/ d > container.depth \/ h > container.height
            THEN FindFromOrientation(os, n + 1, container)
            ELSE LET p == FirstFit(container, w, d, h)
                 IN IF p # NoPosition THEN p
                    ELSE FindFromOrientation(os, n + 1, container)

_find_position_in_container(item, container) ==
    FindFromOrientation(Orientations(item), 1, container)

\* marks the item's own width x depth x height at the position, whatever
\* orientation the slot was found with
_update_container_space(container, position, item) ==
    [container EXCEPT
        !.space = @ \cup Cells(position, item.width, item.depth, item.height,
                               container.width, container.depth, container.height),
        !.items = Append(@, [itemId |-> item.itemId, position |-> position,
                             width |-> item.width, depth |-> item.depth,
                             height |-> item.height])]

_save_placement_to_db(db, item, container_id, position) ==
    IF item.itemId \in DOMAIN db
    THEN [db EXCEPT ![item.itemId].container_id = container_id,
                    ![item.itemId].position = position]
    ELSE db

PlacementOf(item, container_id, position) ==
    [itemId |-> item.itemId, containerId |-> container_id,
     startCoordinates |-> position,
     endCoordinates |-> <<position[1] + item.width, position[2] + item.depth,
                          position[3] + item.height>>]

\* containers_data: a dict keyed by containerId, iterated in insertion order
RECURSIVE DictKeys(_)
DictKeys(cs) ==
    IF cs = <<>> THEN <<>>
    ELSE LET front == DictKeys(SubSeq(cs, 1, Len(cs) - 1))
             k == cs[Len(cs)].containerId
         IN IF k \in SeqToSet(front) THEN front ELSE Append(front, k)

LastWith(cs, k) ==
    cs[CHOOSE n \in 1..Len(cs) :
          /\ cs[n].containerId = k
          /\ \A m \in (n + 1)..Len(cs) : cs[m].containerId # k]

ContainersData(cs) ==
    [order |-> DictKeys(cs),
     byId |-> [k \in {cs[n].containerId : n \in 1..Len(cs)} |->
                  _convert_container_to_internal(LastWith(cs, k))]]

\* items_data.sort(key=priority, reverse=True)
SortItemsData(itemsData) ==
    Values(SortPairs([n \in 1..Len(itemsData) |->
                         << <<0 - itemsData[n].priority>>, itemsData[n] >>]))

\* every container of the request, whatever its zone: the variant C21 refutes
C21_AllContainers(item, cdata) ==
    Values(SortPairs([n \in 1..Len(cdata.order) |->
              << <<0 - cdata.byId[cdata.order[n]].width * cdata.byId[cdata.order[n]].depth
                       * cdata.byId[cdata.order[n]].height>>, cdata.order[n] >>]))

\* the containers tried for an item, in the order they are tried
PreferredContainers(item, cdata) ==
    LET inZone == SelectSeq(cdata.order,
                      LAMBDA k : cdata.byId[k].zone = item.preferredZone)
        cands == IF inZone = <<>> THEN cdata.order ELSE inZone
    IN Values(SortPairs([n \in 1..Len(cands) |->
                 << <<0 - cdata.byId[cands[n]].width * cdata.byId[cands[n]].depth
                          * cdata.byId[cands[n]].height>>, cands[n] >>]))

RECURSIVE TryContainers(_, _, _, _)
TryContainers(cands, n, item, cdata) ==
    IF n > Len(cands) THEN [placed |-> FALSE]
    ELSE LET position == _find_position_in_container(item, cdata.byId[cands[n]])
         IN IF position # NoPosition
            THEN [placed |-> TRUE, containerId |-> cands[n], position |-> position]
            ELSE TryContainers(cands, n + 1, item, cdata)

\* a fallback that places the item at the origin of the first container: the
\* variant C18 refutes
C18_PlacedAnyway(item, cdata, itemsData) ==
    <<<<>>, PlacementOf(item, cdata.order[1], <<0, 0, 0>>)>>

\* "lower_priority_items = [i for i in items if ... and i["placed"]]; if not
\* lower_priority_items: return None".  Every entry of items_data is built
\* with "placed": False and no statement of the service assigns that key, so
\* the list is empty on every call and the method returns here, before it
\* touches a container.
_try_rearrangement(item, cdata, itemsData) ==
    IF SelectSeq(itemsData, LAMBDA i : i.priority < item.priority /\ i.placed) = <<>>
    THEN None
    ELSE None

RECURSIVE PlaceLoop(_, _, _)
PlaceLoop(itemsData, n, st) ==
    IF n > Len(itemsData) THEN st
    ELSE LET item == itemsData[n]
             try == TryContainers(PreferredContainers(item, st.cdata), 1, item, st.cdata)
         IN IF try.placed
            THEN PlaceLoop(itemsData, n + 1,
                    [st EXCEPT
                        !.placements =
                            Append(@, PlacementOf(item, try.containerId, try.position)),
                        !.cdata.byId[try.containerId] =
                            _update_container_space(@, try.position, item),
                        !.db = _save_placement_to_db(@, item, try.containerId,
                                                     try.position)])
            ELSE LET rearrangement_result ==
                         _try_rearrangement(item, st.cdata, itemsData)
                 IN PlaceLoop(itemsData, n + 1,
                        IF rearrangement_result # None
                        THEN [st EXCEPT
                                !.rearrangements = @ \o rearrangement_result[1],
                                !.placements = Append(@, rearrangement_result[2])]
                        ELSE st)

place_items(db, reqItems, reqContainers) ==
    PlaceLoop(SortItemsData([n \in 1..Len(reqItems) |->
                                _convert_item_to_internal(reqItems[n])]),
              1,
              [cdata |-> ContainersData(reqContainers), placements |-> <<>>,
               rearrangements |-> <<>>, db |-> db])

\* POST /placement (routers/placement.py)
PlaceItems(reqItems, reqContainers) ==
    LET out == place_items(items, reqItems, reqContainers)
    IN /\ items' = out.db
       /\ req' = [op |-> "placement", items |-> reqItems,
                  containers |-> reqContainers]
       /\ resp' = [op |-> "placement", success |-> TRUE,
                   placements |-> out.placements,
                   rearrangements |-> out.rearrangements]
       /\ UNCHANGED <<logs, wall>>

(***************************************************************************)
(* The store.  Item ids in primary-key order; the rows of the first CSV    *)
(* import (ImportExportService.import_items creates a row unplaced, not    *)
(* waste, with remaining_uses = usage_limit); the containers table.        *)
(***************************************************************************)
AllIds == <<"i1", "i2", "i3", "i4">>
ItemIds == {AllIds[k] : k \in 1..MaxItems}
IdIndex(id) == CHOOSE k \in 1..Len(AllIds) : AllIds[k] = id

\* rows of a query, in primary-key order
QueryOrder(S) == SelectSeq(AllIds, LAMBDA o : o \in S)

CsvRow(k) ==
    [itemId |-> AllIds[k],
     name |-> IF k <= 2 THEN "kit" ELSE "food",
     width |-> 1, depth |-> 1, height |-> 1,
     mass |-> 3 + 2 * k,
     priority |-> IF k % 2 = 0 THEN 2 ELSE 1,
     expiry_date |-> IF k % 2 = 0 THEN <<2>> ELSE <<>>,
     usageLimit |-> ((k - 1) % MaxUses) + 1,
     preferredZone |-> IF k % 2 = 1 THEN "A" ELSE "B"]

NewItem(row) ==
    [name |-> row.name, width |-> row.width, depth |-> row.depth,
     height |-> row.height, mass |-> row.mass, priority |-> row.priority,
     expiry_date |-> row.expiry_date, usage_limit |-> row.usageLimit,
     remaining_uses |-> row.usageLimit, preferred_zone |-> row.preferredZone,
     is_waste |-> FALSE, container_id |-> None, position |-> NoPosition]

ImportedStore == [id \in ItemIds |-> NewItem(CsvRow(IdIndex(id)))]

\* table "containers"
ContainerIds == {"cA", "cB"}
ContainerRow(id) ==
    IF id = "cA" THEN [zone |-> "A", width |-> 2, depth |-> 2, height |-> 2]
    ELSE [zone |-> "B", width |-> 2, depth |-> 1, height |-> 1]

position_width(it) == it.position[1]
position_depth(it) == it.position[2]
position_height(it) == it.position[3]
BoxStart(it) == it.position
BoxEnd(it) == <<it.position[1] + it.width, it.position[2] + it.depth,
                it.position[3] + it.height>>

(***************************************************************************)
(* Placement requests of the planner specification: up to MaxPlanItems     *)
(* items of height 1 and one or two containers of height 1.                *)
(***************************************************************************)
PlanItem(k, w, d) ==
    [itemId |-> AllIds[k], name |-> CsvRow(k).name, width |-> w, depth |-> d,
     height |-> 1, priority |-> CsvRow(k).priority,
     usageLimit |-> CsvRow(k).usageLimit,
     preferredZone |-> CsvRow(k).preferredZone]

\* ItemBase constrains neither the sign of a dimension nor the ids of a
\* request: the last lists have an item of negative width, or an id twice
PlanItemLists ==
    UNION {{[k \in 1..n |-> PlanItem(k, wd[k][1], wd[k][2])] :
               wd \in [1..n -> (1..MaxDim) \X (1..2)]} : n \in 1..MaxPlanItems}
    \cup {<<PlanItem(2, 0 - 1, 1)>>,
          <<PlanItem(1, 1, 1), PlanItem(2, 0 - 1, 1)>>,
          <<PlanItem(1, 1, 1), PlanItem(1, 1, 1)>>,
          <<PlanItem(1, 1, 1), PlanItem(2, 1, 1), PlanItem(1, 2, 1)>>}

PlanContainer(id, w, d) ==
    [containerId |-> id, zone |-> ContainerRow(id).zone,
     width |-> w, depth |-> d, height |-> 1]

PlanContainerLists ==
    {<<PlanContainer("cA", w, d)>> : w \in 1..MaxDim, d \in 1..2}
    \cup {<<PlanContainer("cA", w, d), PlanContainer("cB", 2, 1)>> :
             w \in 1..MaxDim, d \in 1..2}

NoResponse == [op |-> "none"]

InitPlan ==
    /\ items = ImportedStore
    /\ logs = <<>>
    /\ wall = 0
    /\ req \in [op : {"placement"}, items : PlanItemLists,
                containers : PlanContainerLists]
    /\ resp = NoResponse

NextPlan ==
    /\ resp = NoResponse
    /\ PlaceItems(req.items, req.containers)

SpecPlan == InitPlan /\ [][NextPlan]_vars

(***************************************************************************)
(* RetrievalService / AdvancedRetrievalService: retrieve and place         *)
(* (services/retrieval_service.py, advanced_retrieval_service.py,          *)
(* routers/search.py).  A request timestamp is a string that either parses *)
(* as an ISO instant or makes datetime.fromisoformat raise ValueError.     *)
(***************************************************************************)
\* what datetime.utcnow() may return: the wall clock stands or has advanced
\* to MaxWall, it never runs backwards
ClockReadings == {wall, MaxWall}

fromisoformat(timestamp) == IF timestamp.iso THEN <<timestamp.t>> ELSE <<>>

LogRow(timestamp_dt, user_id, action_type, item_id, from_container, to_container, reason) ==
    [timestamp |-> timestamp_dt, user_id |-> user_id, action_type |-> action_type,
     item_id |-> item_id, from_container |-> from_container,
     to_container |-> to_container, reason |-> reason]

\* the decrement without its guard: the variant C6 refutes
C6_Decrement(remaining_uses) == remaining_uses - 1

\* "if item.remaining_uses > 0: item.remaining_uses -= 1"
UseOnce(remaining_uses) ==
    IF remaining_uses > 0 THEN remaining_uses - 1 ELSE remaining_uses

\* the depletion check left out: the variant C16 refutes
C16_NeverWaste(item) == item.is_waste

\* "if item.remaining_uses == 0: item.is_waste = True"
WasteAfterUse(item) == IF item.remaining_uses = 0 THEN TRUE ELSE item.is_waste

\* RetrievalService.retrieve_item: the row after the call
Retrieved(item) ==
    LET used == [item EXCEPT !.remaining_uses = UseOnce(@)]
    IN [used EXCEPT !.is_waste = WasteAfterUse(used),
                    !.container_id = None,
                    !.position = NoPosition]

\* AdvancedRetrievalService.retrieve_item: the row after the call
AdvRetrieved(item) ==
    LET used == [item EXCEPT !.remaining_uses = UseOnce(@)]
    IN [used EXCEPT !.is_waste = WasteAfterUse(used)]

\* the classes with a retrieve_item, place_item and find_item
Impls == {"RetrievalService", "AdvancedRetrievalService"}

\* POST /retrieve; impl names the service class whose retrieve_item runs
RetrieveItem(impl, item_id, user_id, timestamp) ==
    LET timestamp_dt == fromisoformat(timestamp)
        ok == timestamp_dt # <<>> /\ item_id \in DOMAIN items
    IN /\ Len(logs) < MaxLogs
       /\ req' = [op |-> "retrieve", impl |-> impl, itemId |-> item_id,
                  userId |-> user_id, timestamp |-> timestamp]
       /\ resp' = [op |-> "retrieve", success |-> ok]
       /\ IF ok
          THEN /\ items' = [items EXCEPT ![item_id] =
                               IF impl = "RetrievalService" THEN Retrieved(@)
                               ELSE AdvRetrieved(@)]
               /\ logs' = Append(logs,
                             LogRow(timestamp_dt[1], user_id, "retrieval", item_id,
                                    items[item_id].container_id, None, None))
          ELSE UNCHANGED <<items, logs>>
       /\ UNCHANGED wall

\* "Check if position is valid"
PositionValid(position, container) ==
    ~(\/ position.startCoordinates[1] < 0
      \/ position.startCoordinates[2] < 0
      \/ position.startCoordinates[3] < 0
      \/ position.endCoordinates[1] > container.width
      \/ position.endCoordinates[2] > container.depth
      \/ position.endCoordinates[3] > container.height)

\* the overlap filter returning no row: the variant C4 refutes
C4_NoOverlapFilter(db, item_id, container_id, position) == {}

\* "Check if position overlaps with other items": the rows of the filter
overlapping_items(db, item_id, container_id, position) ==
    {o \in DOMAIN db :
        /\ db[o].container_id = container_id
        /\ o # item_id
        /\ position_width(db[o]) < position.endCoordinates[1]
        /\ position_width(db[o]) + db[o].width > position.startCoordinates[1]
        /\ position_depth(db[o]) < position.endCoordinates[2]
        /\ position_depth(db[o]) + db[o].depth > position.startCoordinates[2]
        /\ position_height(db[o]) < position.endCoordinates[3]
        /\ position_height(db[o]) + db[o].height > position.startCoordinates[3]}

\* the checks of place_item, in the order of its early returns
PlaceAccepted(db, item_id, timestamp, container_id, position) ==
    /\ fromisoformat(timestamp) # <<>>
    /\ item_id \in DOMAIN db
    /\ container_id \in ContainerIds
    /\ PositionValid(position, ContainerRow(container_id))
    /\ overlapping_items(db, item_id, container_id, position) = {}

Placed(item, container_id, position) ==
    [item EXCEPT
        !.container_id = container_id,
        !.position = position.startCoordinates,
        !.width = position.endCoordinates[1] - position.startCoordinates[1],
        !.depth = position.endCoordinates[2] - position.startCoordinates[2],
        !.height = position.endCoordinates[3] - position.startCoordinates[3]]

\* POST /place
PlaceItem(item_id, user_id, timestamp, container_id, position) ==
    LET ok == PlaceAccepted(items, item_id, timestamp, container_id, position)
    IN /\ Len(logs) < MaxLogs
       /\ req' = [op |-> "place", itemId |-> item_id, userId |-> user_id,
                  timestamp |-> timestamp, containerId |-> container_id,
                  position |-> position]
       /\ resp' = [op |-> "place", success |-> ok]
       /\ IF ok
          THEN /\ items' = [items EXCEPT ![item_id] =
                               Placed(@, container_id, position)]
               /\ logs' = Append(logs,
                             LogRow(fromisoformat(timestamp)[1], user_id, "placement",
                                    item_id, items[item_id].container_id,
                                    container_id, None))
          ELSE UNCHANGED <<items, logs>>
       /\ UNCHANGED wall

(***************************************************************************)
(* Retrieval planning: RetrievalService._calculate_retrieval_steps and     *)
(* AdvancedRetrievalService._calculate_optimal_retrieval_steps.            *)
(***************************************************************************)
TicksPerDay == 2

RetrievalStep(step, action, db, id) ==
    [step |-> step, action |-> action, itemId |-> id, itemName |-> db[id].name]

\* "Get all items in the same container"
items_in_container(db, id) ==
    QueryOrder({o \in DOMAIN db :
                   db[o].container_id = db[id].container_id /\ o # id})

\* in front at any width: the variant C9 refutes
C9_InFrontAnywhere(other_item, item) ==
    /\ position_depth(other_item) < position_depth(item)
    /\ position_height(other_item) < position_height(item) + item.height
    /\ position_height(other_item) + other_item.height > position_height(item)

\* "Check if other_item is in front of our item"
InFront(other_item, item) ==
    /\ position_depth(other_item) < position_depth(item)
    /\ position_width(other_item) < position_width(item) + item.width
    /\ position_width(other_item) + other_item.width > position_width(item)
    /\ position_height(other_item) < position_height(item) + item.height
    /\ position_height(other_item) + other_item.height > position_height(item)

\* blocking_items.sort(key=lambda x: x.position_depth)
SortByDepth(db, ids) ==
    Values(SortPairs([n \in 1..Len(ids) |->
                         << <<position_depth(db[ids[n]])>>, ids[n] >>]))

blocking_items(db, id) ==
    SortByDepth(db, SelectSeq(items_in_container(db, id),
                              LAMBDA o : InFront(db[o], db[id])))

\* "for i, blocking_item in enumerate(blocking_items)": steps i+1 and i+2
RECURSIVE RemoveSteps(_, _, _)
RemoveSteps(db, blockers, n) ==
    IF n = 0 THEN <<>>
    ELSE RemoveSteps(db, blockers, n - 1)
         \o << RetrievalStep(n, "remove", db, blockers[n]),
               RetrievalStep(n + 1, "setAside", db, blockers[n]) >>

\* the steps appended with step=len(steps)+1
RECURSIVE AppendNumbered(_, _, _, _)
AppendNumbered(steps, db, action, ids) ==
    IF ids = <<>> THEN steps
    ELSE AppendNumbered(Append(steps, RetrievalStep(Len(steps) + 1, action, db, ids[1])),
                        db, action, Tail(ids))

\* the steps after the blocking items are known: their remove / setAside
\* pairs, the retrieve of the target, the placeBack of each in reverse order
StepsAround(removed, db, id, blockers) ==
    AppendNumbered(AppendNumbered(removed, db, "retrieve", <<id>>),
                   db, "placeBack", Reversed(blockers))

StepsWithBlockers(db, id, blockers) ==
    StepsAround(RemoveSteps(db, blockers, Len(blockers)), db, id, blockers)

_calculate_retrieval_steps(db, id) ==
    IF position_depth(db[id]) = 0
    THEN <<RetrievalStep(1, "retrieve", db, id)>>
    ELSE StepsWithBlockers(db, id, blocking_items(db, id))

\* Keys handed to index_to_item.get: an int of the range() loops, or an Item
\* object (the loop variable of a generator expression).
IntKey(n) == [kind |-> "int", n |-> n]
ItemKey(id) == [kind |-> "Item", id |-> id]

\* index_to_item: 1 is the target, 2.. are the other items in query order
index_to_item(id, others) ==
    [n \in 1..(Len(others) + 1) |-> IF n = 1 THEN id ELSE others[n - 1]]

\* the locals the nested functions of _calculate_optimal_retrieval_steps
\* close over
Closure(db, id, others) ==
    [db |-> db, item |-> id, items_in_container |-> others,
     index_to_item |-> index_to_item(id, others)]

\* dict.get: None for a key the dict does not hold
DictGet(d, key) ==
    IF key.kind = "int" /\ key.n \in DOMAIN d THEN d[key.n] ELSE None

Overlap1D(a1, a2, b1, b2) == Max(0, Min(a2, b2) - Max(a1, b1))

\* the test of is_blocking_direct_access on two rows
BlocksAccess(other, item) ==
    /\ position_depth(other) < position_depth(item)
    /\ Overlap1D(position_width(other), position_width(other) + other.width,
                 position_width(item), position_width(item) + item.width) > 0
    /\ Overlap1D(position_height(other), position_height(other) + other.height,
                 position_height(item), position_height(item) + item.height) > 0

is_blocking_direct_access(c, idx) ==
    IF DictGet(c.index_to_item, IntKey(idx)) \in SeqToSet(c.items_in_container)
    THEN BlocksAccess(c.db[DictGet(c.index_to_item, IntKey(idx))], c.db[c.item])
    ELSE FALSE

\* "other_item = next((i for i in items_in_container
\*                     if i.id == index_to_item.get(i)), None)":
\* inside the generator i is the Item being tested, not the index of the
\* enclosing for loop, so the dict is asked for an Item key.
FirstOrNone(matches) == IF matches = <<>> THEN None ELSE matches[1]

GeneratorOtherItem(c) ==
    FirstOrNone(SelectSeq(c.items_in_container,
                          LAMBDA o : o = DictGet(c.index_to_item, ItemKey(o))))

\* "If there's significant overlap, consider it supported"
SignificantOverlap(sup, other_item) ==
    /\ position_height(other_item) = position_height(sup) + sup.height
    /\ 2 * Overlap1D(position_width(other_item),
                     position_width(other_item) + other_item.width,
                     position_width(sup), position_width(sup) + sup.width)
         * Overlap1D(position_depth(other_item),
                     position_depth(other_item) + other_item.depth,
                     position_depth(sup), position_depth(sup) + sup.depth)
       > other_item.width * other_item.depth

\* the loop of get_supported_items once supporting_item and other_item are known
SupportedBy(c, idx, supporting, other_item) ==
    IF supporting = None \/ other_item = None THEN {}
    ELSE {i \in 2..(Len(c.items_in_container) + 2) :
             i # idx /\ SignificantOverlap(c.db[supporting], c.db[other_item])}

get_supported_items(c, idx) ==
    IF idx = 0 THEN {}
    ELSE SupportedBy(c, idx, DictGet(c.index_to_item, IntKey(idx)),
                     GeneratorOtherItem(c))

direct_blockers(c) ==
    {idx \in 2..(Len(c.items_in_container) + 2) : is_blocking_direct_access(c, idx)}

SupportedByAll(c, idxs) == UNION {get_supported_items(c, idx) : idx \in idxs}

\* direct blockers, what they support, and what that supports
Closed(c, direct) ==
    direct \cup SupportedByAll(c, direct)
           \cup SupportedByAll(c, SupportedByAll(c, direct))

to_remove(c) == Closed(c, direct_blockers(c))

\* to_remove_items.sort(key=lambda x: (x.position_depth, -x.position_height))
SortForRemoval(db, ids) ==
    Values(SortPairs([n \in 1..Len(ids) |->
              << <<position_depth(db[ids[n]]), 0 - position_height(db[ids[n]])>>,
                 ids[n] >>]))

Lookup(c, idxs) == [n \in 1..Len(idxs) |-> c.index_to_item[idxs[n]]]

\* "[next(i for i in items_in_container if i.id == index_to_item.get(idx))
\*   for idx in to_remove if idx in index_to_item]", then the sort
to_remove_items(c) ==
    SortForRemoval(c.db,
        Lookup(c, SelectSeq([n \in 1..(Len(c.items_in_container) + 2) |-> n],
                            LAMBDA n : n \in to_remove(c)
                                       /\ n \in DOMAIN c.index_to_item)))

\* remove and setAside of each item, numbered by step_counter
RECURSIVE CountedRemoveSteps(_, _, _)
CountedRemoveSteps(db, ids, n) ==
    IF n = 0 THEN <<>>
    ELSE CountedRemoveSteps(db, ids, n - 1)
         \o << RetrievalStep(2 * n - 1, "remove", db, ids[n]),
               RetrievalStep(2 * n, "setAside", db, ids[n]) >>

OptimalSteps(db, id, ids) ==
    StepsAround(CountedRemoveSteps(db, ids, Len(ids)), db, id, ids)

_calculate_optimal_retrieval_steps(db, id) ==
    IF position_depth(db[id]) = 0
    THEN <<RetrievalStep(1, "retrieve", db, id)>>
    ELSE IF db[id].container_id \notin ContainerIds THEN <<>>
    ELSE OptimalSteps(db, id, to_remove_items(Closure(db, id, items_in_container(db, id))))

(***************************************************************************)
(* find_item of both services.  A search names an item id or, when the id  *)
(* is empty, an item name.                                                 *)
(***************************************************************************)
\* query.all(): the rows matching the id or the name
MatchingItems(db, item_id, item_name) ==
    IF item_id # "" THEN QueryOrder({o \in DOMAIN db : o = item_id})
    ELSE IF item_name # "" THEN QueryOrder({o \in DOMAIN db : db[o].name = item_name})
    ELSE <<>>

\* RetrievalService.find_item: fewest steps, then the earlier expiry date
FewerSteps(db, best, item, n) ==
    IF n = <<>> THEN best
    ELSE IF best.key = <<>> \/ n[1] < best.key[1] THEN [item |-> item, key |-> n]
    ELSE IF /\ n[1] = best.key[1]
            /\ db[item].expiry_date # <<>>
            /\ \/ db[best.item].expiry_date = <<>>
               \/ db[item].expiry_date[1] < db[best.item].expiry_date[1]
    THEN [item |-> item, key |-> best.key]
    ELSE best

StepsCount(db, item) ==
    IF db[item].container_id = None THEN <<>>
    ELSE <<Len(_calculate_retrieval_steps(db, item))>>

RECURSIVE BestBySteps(_, _, _)
BestBySteps(db, cands, best) ==
    IF cands = <<>> THEN best.item
    ELSE BestBySteps(db, Tail(cands),
                     FewerSteps(db, best, cands[1], StepsCount(db, cands[1])))

\* AdvancedRetrievalService._calculate_retrieval_score, times 73000:
\* 0.5 * (1 - steps / 20) + 0.3 * expiry_score + 0.2 * priority / 100
ScoreOf(steps_count, expiry_date, priority, now) ==
    (36500 - 1825 * steps_count)
    + (IF expiry_date # <<>>
       THEN 21900 - 60 * Max(0, Min((expiry_date[1] - now) \div TicksPerDay, 365))
       ELSE 0)
    + 146 * priority

_calculate_retrieval_score(db, item, now) ==
    ScoreOf(Len(_calculate_optimal_retrieval_steps(db, item)),
            db[item].expiry_date, db[item].priority, now)

Score(db, item, now) ==
    IF db[item].container_id = None THEN <<>>
    ELSE <<_calculate_retrieval_score(db, item, now)>>

\* "if score > best_score: best_score = score; best_item = item"
HigherScore(best, item, score) ==
    IF score = <<>> THEN best
    ELSE IF best.key = <<>> \/ score[1] > best.key[1] THEN [item |-> item, key |-> score]
    ELSE best

RECURSIVE BestByScore(_, _, _, _)
BestByScore(db, cands, best, now) ==
    IF cands = <<>> THEN best.item
    ELSE BestByScore(db, Tail(cands),
                     HigherScore(best, cands[1], Score(db, cands[1], now)), now)

NotFound == [found |-> FALSE, item |-> None, retrievalSteps |-> <<>>]

FoundItem(db, best_item, steps) ==
    [found |-> TRUE,
     item |-> [itemId |-> best_item, name |-> db[best_item].name,
               containerId |-> db[best_item].container_id,
               zone |-> ContainerRow(db[best_item].container_id).zone,
               startCoordinates |-> BoxStart(db[best_item]),
               endCoordinates |-> BoxEnd(db[best_item])],
     retrievalSteps |-> steps]

\* the part of find_item after the loop over the matching rows
FoundOrNot(db, best_item, steps) ==
    IF best_item = None THEN NotFound
    ELSE IF db[best_item].container_id \notin ContainerIds THEN NotFound
    ELSE FoundItem(db, best_item, steps[best_item])

RetrievalService_find_item(db, cands) ==
    FoundOrNot(db, BestBySteps(db, cands, [item |-> None, key |-> <<>>]),
               [o \in SeqToSet(cands) |->
                   IF db[o].container_id = None THEN <<>>
                   ELSE _calculate_retrieval_steps(db, o)])

AdvancedRetrievalService_find_item(db, cands, now) ==
    FoundOrNot(db, BestByScore(db, cands, [item |-> None, key |-> <<>>], now),
               [o \in SeqToSet(cands) |->
                   IF db[o].container_id = None THEN <<>>
                   ELSE _calculate_optimal_retrieval_steps(db, o)])

find_item(db, impl, item_id, item_name, now) ==
    IF impl = "RetrievalService"
    THEN RetrievalService_find_item(db, MatchingItems(db, item_id, item_name))
    ELSE AdvancedRetrievalService_find_item(db, MatchingItems(db, item_id, item_name), now)

\* GET /search; the advanced service reads the wall clock for its score
FindItem(impl, item_id, item_name) ==
    /\ item_id # "" \/ item_name # ""
    /\ \E now \in ClockReadings :
          /\ wall' = IF impl = "RetrievalService" THEN wall ELSE now
          /\ resp' = [op |-> "search", success |-> TRUE]
                     @@ find_item(items, impl, item_id, item_name, now)
    /\ req' = [op |-> "search", impl |-> impl, itemId |-> item_id,
               itemName |-> item_name]
    /\ UNCHANGED <<items, logs>>

(***************************************************************************)
(* SimulationService.simulate_days (services/simulation_service.py,        *)
(* routers/simulation.py).  Instants are ticks, a day is TicksPerDay ticks.*)
(* The session is created with autoflush=False: a query inside the call    *)
(* filters on the committed rows, and the rows it returns are the objects  *)
(* the call has already changed.                                           *)
(***************************************************************************)
\* "self.db.query(Log).order_by(Log.timestamp.desc()).first()"
RECURSIVE LatestTimestamp(_)
LatestTimestamp(ls) ==
    IF Len(ls) = 1 THEN ls[1].timestamp
    ELSE Max(ls[1].timestamp, LatestTimestamp(Tail(ls)))

current_date(ls, utcnow) == IF ls = <<>> THEN utcnow ELSE LatestTimestamp(ls)

\* "Calculate target date"
RequestedDate(current, num_of_days, to_timestamp) ==
    IF to_timestamp # <<>>
    THEN (IF fromisoformat(to_timestamp[1]) # <<>>
          THEN fromisoformat(to_timestamp[1])[1] ELSE current)
    ELSE IF num_of_days # <<>> /\ num_of_days[1] # 0
    THEN current + num_of_days[1] * TicksPerDay
    ELSE current + TicksPerDay

\* "Ensure target date is in the future"
target_date(current, requested) ==
    IF requested <= current THEN current + TicksPerDay ELSE requested

\* (target_date - current_date).days
days_to_simulate(current, target) == (target - current) \div TicksPerDay

\* comparing an offset-aware target with the naive current date raises
ComparisonRaises(to_timestamp) ==
    /\ to_timestamp # <<>>
    /\ fromisoformat(to_timestamp[1]) # <<>>
    /\ to_timestamp[1].aware

UsedRow(db, usage_item) ==
    IF usage_item.itemId # ""
    THEN (IF usage_item.itemId \in DOMAIN db THEN usage_item.itemId ELSE None)
    ELSE IF usage_item.name # ""
    THEN FirstOrNone(QueryOrder({o \in DOMAIN db : db[o].name = usage_item.name}))
    ELSE None

\* one usage entry of one day, applied to the session's objects
Used(st, id) ==
    IF id = None THEN st
    ELSE IF st.db[id].remaining_uses > 0
    THEN LET used == [st.db EXCEPT ![id].remaining_uses = UseOnce(@)]
         IN [st EXCEPT
                !.db = [used EXCEPT ![id].is_waste = WasteAfterUse(used[id])],
                !.items_used = Append(@, [itemId |-> id, name |-> used[id].name,
                                          remainingUses |-> used[id].remaining_uses]),
                !.items_depleted_today =
                    IF used[id].remaining_uses = 0
                    THEN Append(@, [itemId |-> id, name |-> used[id].name])
                    ELSE @]
    ELSE st

RECURSIVE UseAll(_, _)
UseAll(st, usage) ==
    IF usage = <<>> THEN st
    ELSE UseAll(Used(st, UsedRow(st.db, usage[1])), Tail(usage))

\* "Check for expired items": the filter reads the committed rows
expired_items_query(committed, date) ==
    QueryOrder({o \in DOMAIN committed :
                   /\ committed[o].expiry_date # <<>>
                   /\ committed[o].expiry_date[1] <= date
                   /\ committed[o].is_waste = FALSE})

Expired(st, ids) ==
    [st EXCEPT
        !.db = [o \in DOMAIN st.db |->
                   IF o \in SeqToSet(ids) THEN [st.db[o] EXCEPT !.is_waste = TRUE]
                   ELSE st.db[o]],
        !.items_expired = @ \o [n \in 1..Len(ids) |->
                                   [itemId |-> ids[n], name |-> st.db[ids[n]].name]]]

\* "for day in range(days_to_simulate)": usage, expiry, the log row of the day
RECURSIVE SimulatedDays(_, _, _, _, _)
SimulatedDays(st, committed, usage, date, days) ==
    IF days = 0 THEN st
    ELSE SimulatedDays(
            [Expired(UseAll(st, usage),
                     expired_items_query(committed, date + TicksPerDay))
                EXCEPT !.logs = Append(@, LogRow(date + TicksPerDay, "system",
                                                 "simulation", "N/A", None, None, None))],
            committed, usage, date + TicksPerDay, days - 1)

simulate_days(db, ls, current, target, usage) ==
    SimulatedDays([db |-> db, logs |-> ls, items_used |-> <<>>,
                   items_expired |-> <<>>, items_depleted_today |-> <<>>],
                  db, usage, current, days_to_simulate(current, target))

Simulated(out, target) ==
    /\ items' = out.db
    /\ logs' = out.logs
    /\ resp' = [op |-> "simulate", success |-> TRUE, newDate |-> target,
                itemsUsed |-> out.items_used, itemsExpired |-> out.items_expired,
                itemsDepletedToday |-> out.items_depleted_today]

SimulateTo(current, target, usage) ==
    /\ Len(logs) + days_to_simulate(current, target) <= MaxLogs
    /\ Simulated(simulate_days(items, logs, current, target, usage), target)

\* POST /simulate/day
SimulateDays(num_of_days, to_timestamp, usage, utcnow) ==
    /\ req' = [op |-> "simulate", numOfDays |-> num_of_days,
               toTimestamp |-> to_timestamp, itemsToBeUsedPerDay |-> usage]
    /\ wall' = IF logs = <<>> THEN utcnow ELSE wall
    /\ IF ComparisonRaises(to_timestamp)
       THEN /\ resp' = [op |-> "simulate", success |-> FALSE]
            /\ UNCHANGED <<items, logs>>
       ELSE SimulateTo(current_date(logs, utcnow),
                       target_date(current_date(logs, utcnow),
                                   RequestedDate(current_date(logs, utcnow),
                                                 num_of_days, to_timestamp)),
                       usage)

(***************************************************************************)
(* WasteService (services/waste_service.py, routers/waste.py).             *)
(***************************************************************************)
\* "if ... item.container_id: container = ...first(); if container:"
Listed(db, o) == db[o].container_id # None /\ db[o].container_id \in ContainerIds

WasteItem(db, o, reason) ==
    [itemId |-> o, name |-> db[o].name, reason |-> reason,
     containerId |-> db[o].container_id,
     startCoordinates |-> BoxStart(db[o]), endCoordinates |-> BoxEnd(db[o])]

\* the three queries, all run before any row is changed
expired_items(db, now) ==
    QueryOrder({o \in DOMAIN db : /\ db[o].expiry_date # <<>>
                                  /\ db[o].is_waste = FALSE
                                  /\ db[o].expiry_date[1] < now})

depleted_items(db) ==
    QueryOrder({o \in DOMAIN db : db[o].remaining_uses = 0 /\ db[o].is_waste = FALSE})

existing_waste_items(db) == QueryOrder({o \in DOMAIN db : db[o].is_waste = TRUE})

\* one of the three loops: rows not yet processed that sit in a known container
ListedOf(db, rows, processed_ids) ==
    SelectSeq(rows, LAMBDA o : o \notin processed_ids /\ Listed(db, o))

\* no row flagged: the variant C24 refutes
C24_NotMarked(db, ids) == db

MarkedWaste(db, ids) ==
    [o \in DOMAIN db |-> IF o \in ids THEN [db[o] EXCEPT !.is_waste = TRUE] ELSE db[o]]

\* the rows a loop lists, with the reason it gives them
WasteItems(db, rows, reasons) ==
    [n \in 1..Len(rows) |-> WasteItem(db, rows[n], reasons[rows[n]])]

identify_waste(db, now) ==
    LET expired == ListedOf(db, expired_items(db, now), {})
        depleted == ListedOf(db, depleted_items(db), SeqToSet(expired))
        existing == ListedOf(db, existing_waste_items(db),
                             SeqToSet(expired) \cup SeqToSet(depleted))
    IN [db |-> MarkedWaste(db, SeqToSet(expired) \cup SeqToSet(depleted)),
        waste_items |->
            WasteItems(db, expired, [o \in DOMAIN db |-> "Expired"])
            \o WasteItems(db, depleted, [o \in DOMAIN db |-> "Out of Uses"])
            \o WasteItems(db, existing,
                   [o \in DOMAIN db |->
                       IF db[o].expiry_date # <<>> /\ db[o].expiry_date[1] < now
                       THEN "Expired"
                       ELSE IF db[o].remaining_uses = 0 THEN "Out of Uses"
                       ELSE "Unknown"])]

\* GET /waste/identify
IdentifyWaste(now) ==
    /\ items' = identify_waste(items, now).db
    /\ resp' = [op |-> "identify", success |-> TRUE,
                wasteItems |-> identify_waste(items, now).waste_items]
    /\ req' = [op |-> "identify"]
    /\ wall' = now
    /\ UNCHANGED logs

\* waste_items.sort(key=lambda x: x.mass, reverse=True)
SortByMass(db, ids) ==
    Values(SortPairs([n \in 1..Len(ids) |-> << <<0 - db[ids[n]].mass>>, ids[n] >>]))

\* "Adjust step numbers": step.step = len(retrieval_steps) + i + 1
Renumbered(retrieval_steps, item_retrieval_steps) ==
    retrieval_steps
    \o [i \in 1..Len(item_retrieval_steps) |->
           [item_retrieval_steps[i] EXCEPT !.step = Len(retrieval_steps) + i]]

ItemRetrievalSteps(db, o) ==
    IF db[o].container_id = None THEN <<>>
    ELSE RetrievalService_find_item(db, <<o>>).retrievalSteps

\* a volume of nothing: the variant C11 refutes
C11_NoVolume(row) == 0

Volume(row) == row.width * row.depth * row.height

\* the body of "for item in waste_items" for an item that fits
Returned(st, db, o, undocking_container_id, item_retrieval_steps) ==
    [st EXCEPT
        !.return_plan = Append(@, [step |-> Len(@) + 1, itemId |-> o,
                                   itemName |-> db[o].name,
                                   fromContainer |-> db[o].container_id,
                                   toContainer |-> undocking_container_id]),
        !.raised = @ \/ db[o].container_id = None,
        !.retrieval_steps = Renumbered(@, item_retrieval_steps),
        !.return_items = Append(@, [itemId |-> o, name |-> db[o].name,
                                    reason |-> "Waste"]),
        !.total_volume = @ + Volume(db[o]),
        !.total_weight = @ + db[o].mass]

RECURSIVE ReturnLoop(_, _, _, _, _, _)
ReturnLoop(st, db, waste_items, undocking_container_id, max_weight, available_volume) ==
    IF waste_items = <<>> \/ st.raised THEN st
    ELSE ReturnLoop(
            IF /\ ~(st.total_weight + db[waste_items[1]].mass > max_weight)
               /\ ~(st.total_volume + Volume(db[waste_items[1]]) > available_volume)
            THEN Returned(st, db, waste_items[1], undocking_container_id,
                          ItemRetrievalSteps(db, waste_items[1]))
            ELSE st,
            db, Tail(waste_items), undocking_container_id, max_weight,
            available_volume)

EmptyPlan ==
    [return_plan |-> <<>>, retrieval_steps |-> <<>>, return_items |-> <<>>,
     total_volume |-> 0, total_weight |-> 0, raised |-> FALSE]

create_return_plan(db, undocking_container_id, undocking_date, max_weight) ==
    IF fromisoformat(undocking_date) = <<>> THEN EmptyPlan
    ELSE IF undocking_container_id \notin ContainerIds THEN EmptyPlan
    ELSE ReturnLoop(EmptyPlan, db, SortByMass(db, existing_waste_items(db)),
                    undocking_container_id, max_weight,
                    Volume(ContainerRow(undocking_container_id)))

\* a ReturnPlanStep with fromContainer=None fails validation: status 500
ReturnPlanResponse(out) ==
    IF out.raised THEN [op |-> "returnPlan", success |-> FALSE]
    ELSE [op |-> "returnPlan", success |-> TRUE,
          returnPlan |-> out.return_plan, retrievalSteps |-> out.retrieval_steps,
          returnItems |-> out.return_items, totalVolume |-> out.total_volume,
          totalWeight |-> out.total_weight]

\* POST /waste/return-plan
CreateReturnPlan(undocking_container_id, undocking_date, max_weight) ==
    /\ resp' = ReturnPlanResponse(create_return_plan(items, undocking_container_id,
                                                     undocking_date, max_weight))
    /\ req' = [op |-> "returnPlan", undockingContainerId |-> undocking_container_id,
               undockingDate |-> undocking_date, maxWeight |-> max_weight]
    /\ UNCHANGED <<items, logs, wall>>

\* every row of the container, waste or not: the variant C13 refutes
C13_AllOfContainer(db, undocking_container_id) ==
    QueryOrder({o \in DOMAIN db : db[o].container_id = undocking_container_id})

\* "Find all waste items in the undocking container"
undocked_items(db, undocking_container_id) ==
    QueryOrder({o \in DOMAIN db :
                   db[o].container_id = undocking_container_id /\ db[o].is_waste = TRUE})

DisposalLogs(timestamp_dt, waste_items, undocking_container_id) ==
    [n \in 1..Len(waste_items) |->
        LogRow(timestamp_dt, "system", "disposal", waste_items[n],
               undocking_container_id, None, "Undocking")]

Undocked(timestamp_dt, waste_items, undocking_container_id) ==
    /\ Len(logs) + Len(waste_items) <= MaxLogs
    /\ items' = [o \in DOMAIN items \ SeqToSet(waste_items) |-> items[o]]
    /\ logs' = logs \o DisposalLogs(timestamp_dt, waste_items, undocking_container_id)
    /\ resp' = [op |-> "undocking", success |-> TRUE,
                itemsRemoved |-> Len(waste_items)]

\* "role_hierarchy.get(role, 0)" (models/auth.py)
role_hierarchy(role) ==
    CASE role = "admin" -> 3
      [] role = "commander" -> 2
      [] role = "astronaut" -> 1
      [] OTHER -> 0

\* "Check if user has the required role or higher."
has_permission(user_role, required_role) ==
    role_hierarchy(user_role) >= role_hierarchy(required_role)

\* POST /waste/complete-undocking.  role is the role of the user whose token
\* the request bears; the route declares no dependency on the current user,
\* so the handler never reads it.
CompleteUndocking(role, undocking_container_id, timestamp) ==
    /\ req' = [op |-> "undocking", role |-> role,
               undockingContainerId |-> undocking_container_id,
               timestamp |-> timestamp]
    /\ IF fromisoformat(timestamp) = <<>>
       THEN /\ resp' = [op |-> "undocking", success |-> TRUE, itemsRemoved |-> 0]
            /\ UNCHANGED <<items, logs>>
       ELSE Undocked(fromisoformat(timestamp)[1],
                     undocked_items(items, undocking_container_id),
                     undocking_container_id)
    /\ UNCHANGED wall

(***************************************************************************)
(* ImportExportService.import_items and POST /import/items                 *)
(* (services/import_export_service.py, routers/import_export.py).  A line  *)
(* of the file holds the cells of a row; missing marks an empty required   *)
(* cell, bad_expiry an expiry cell that does not parse.                    *)
(***************************************************************************)
\* a re-import that writes the row as a new one: the variant C7
\* refutes
C7_Recreated(existing_item, row) ==
    [NewItem(row) EXCEPT !.container_id = existing_item.container_id,
                         !.position = existing_item.position]

\* "Update existing item": placement and waste flag are not assigned
Reimported(existing_item, row) ==
    [existing_item EXCEPT
        !.name = row.name, !.width = row.width, !.depth = row.depth,
        !.height = row.height, !.mass = row.mass, !.priority = row.priority,
        !.expiry_date = row.expiry_date, !.usage_limit = row.usageLimit,
        !.remaining_uses = row.usageLimit, !.preferred_zone = row.preferredZone]

ImportedRow(st, row) ==
    [db |-> [o \in DOMAIN st.db \cup {row.itemId} |->
                IF o # row.itemId THEN st.db[o]
                ELSE IF o \in DOMAIN st.db THEN Reimported(st.db[o], row)
                ELSE NewItem(row)],
     items_imported |-> st.items_imported + 1,
     errors |-> st.errors]

RECURSIVE ImportRows(_, _, _)
ImportRows(st, lines, row_num) ==
    IF lines = <<>> THEN st
    ELSE ImportRows(IF lines[1].missing \/ lines[1].bad_expiry
                    THEN [st EXCEPT !.errors = Append(@, row_num)]
                    ELSE ImportedRow(st, lines[1].cells),
                    Tail(lines), row_num + 1)

import_items(db, lines) ==
    ImportRows([db |-> db, items_imported |-> 0, errors |-> <<>>], lines, 2)

\* "Get all items that don't have a container assigned", as ItemBase models
ItemBase(db, o) ==
    [itemId |-> o, name |-> db[o].name, width |-> db[o].width,
     depth |-> db[o].depth, height |-> db[o].height, priority |-> db[o].priority,
     usageLimit |-> db[o].usage_limit, preferredZone |-> db[o].preferred_zone]

ItemModels(db, ids) == [n \in 1..Len(ids) |-> ItemBase(db, ids[n])]

item_models(db) ==
    ItemModels(db, QueryOrder({o \in DOMAIN db : db[o].container_id = None}))

\* "Get all available containers", as ContainerBase models
ContainerBase(id) ==
    [containerId |-> id, zone |-> ContainerRow(id).zone,
     width |-> ContainerRow(id).width, depth |-> ContainerRow(id).depth,
     height |-> ContainerRow(id).height]

container_models == <<ContainerBase("cA"), ContainerBase("cB")>>

AutoPlaced(imported, models) ==
    IF models = <<>>
    THEN [db |-> imported.db, placements |-> <<>>]
    ELSE place_items(imported.db, models, container_models)

Imported(imported, placed) ==
    /\ items' = placed.db
    /\ resp' = [op |-> "import", success |-> imported.errors = <<>>,
                itemsImported |-> imported.items_imported,
                errors |-> imported.errors, placements |-> placed.placements]

ImportedThenPlaced(imported, auto_place) ==
    Imported(imported,
             IF auto_place /\ imported.items_imported > 0
             THEN AutoPlaced(imported, item_models(imported.db))
             ELSE [db |-> imported.db, placements |-> <<>>])

\* POST /import/items
ImportItems(lines, auto_place) ==
    /\ ImportedThenPlaced(import_items(items, lines), auto_place)
    /\ req' = [op |-> "import", lines |-> lines, auto_place |-> auto_place]
    /\ UNCHANGED <<logs, wall>>

(***************************************************************************)
(* The store under its operations, from the rows of a first import, none   *)
(* of them placed.                                                         *)
(***************************************************************************)
\* a timestamp string: malformed, or an instant with or without a UTC offset
Malformed == [iso |-> FALSE, t |-> 0, aware |-> FALSE]
Instant(t) == [iso |-> TRUE, t |-> t, aware |-> FALSE]

UnknownId == "zz"

\* POST /retrieve bodies: every item by either class, an unknown item, a
\* malformed timestamp
RetrieveRequests ==
    {[impl |-> impl, itemId |-> o, timestamp |-> Instant(0)] :
        impl \in Impls, o \in ItemIds}
    \cup {[impl |-> "RetrievalService", itemId |-> UnknownId, timestamp |-> Instant(0)],
          [impl |-> "RetrievalService", itemId |-> "i1", timestamp |-> Malformed]}

Box(start, size) ==
    [startCoordinates |-> start,
     endCoordinates |-> <<start[1] + size[1], start[2] + size[2], start[3] + size[3]>>]

\* positions of place requests: three inside container cA (two of them
\* overlapping), one across its far wall, one at a negative origin
PlacePositions ==
    {Box(<<0, 0, 0>>, <<1, 1, 1>>), Box(<<0, 0, 0>>, <<2, 1, 1>>),
     Box(<<1, 0, 0>>, <<1, 1, 1>>), Box(<<1, 0, 0>>, <<2, 1, 1>>),
     Box(<<-1, 0, 0>>, <<1, 1, 1>>)}

PlaceRequest(o, timestamp, container_id, position) ==
    [itemId |-> o, timestamp |-> timestamp, containerId |-> container_id,
     position |-> position]

\* POST /place bodies: every item at every position of cA, an unknown item,
\* an unknown container, a malformed timestamp
PlaceRequests ==
    {PlaceRequest(o, Instant(0), "cA", position) :
        o \in ItemIds, position \in PlacePositions}
    \cup {PlaceRequest(UnknownId, Instant(0), "cA", Box(<<0, 0, 0>>, <<1, 1, 1>>)),
          PlaceRequest("i1", Instant(0), UnknownId, Box(<<0, 0, 0>>, <<1, 1, 1>>)),
          PlaceRequest("i1", Malformed, "cA", Box(<<0, 0, 0>>, <<1, 1, 1>>))}

\* POST /placement bodies: rows of the store as the client holds them, with
\* the containers of the store
PlacementRequests ==
    {[items |-> ItemModels(items, <<o>>), containers |-> container_models] :
        o \in DOMAIN items}
    \cup {[items |-> ItemModels(items, QueryOrder(DOMAIN items)),
           containers |-> cs] : cs \in {container_models, <<ContainerBase("cA")>>}}

SimulationItem(id, name) == [itemId |-> id, name |-> name]

\* POST /simulate/day bodies
SimulationRequest(num_of_days, to_timestamp, usage) ==
    [numOfDays |-> num_of_days, toTimestamp |-> to_timestamp,
     itemsToBeUsedPerDay |-> usage]

SimulationRequests ==
    {SimulationRequest(n, <<>>, <<>>) : n \in {<<>>, <<0>>, <<MaxUses>>}}
    \cup {SimulationRequest(<<>>, <<t>>, <<>>) :
             t \in {Malformed, Instant(MaxWall),
                    [Instant(MaxWall) EXCEPT !.aware = TRUE]}}
    \cup {SimulationRequest(<<MaxUses>>, <<>>, usage) :
             usage \in {<<SimulationItem("i1", "")>>,
                        <<SimulationItem("", "kit"), SimulationItem(UnknownId, "")>>,
                        <<SimulationItem("i2", ""), SimulationItem("i2", "")>>}}

\* lines of an imported file: a row as first imported, the row with another
\* usage limit, a row with an empty required cell, one with a bad expiry cell
Line(cells, missing, bad_expiry) ==
    [cells |-> cells, missing |-> missing, bad_expiry |-> bad_expiry]

ImportRequests ==
    {[lines |-> <<Line(CsvRow(k), FALSE, FALSE)>>, auto_place |-> FALSE] :
        k \in 1..MaxItems}
    \cup {[lines |-> <<Line([CsvRow(1) EXCEPT !.usageLimit = MaxUses], FALSE, FALSE)>>,
           auto_place |-> FALSE],
          [lines |-> <<Line(CsvRow(1), TRUE, FALSE), Line(CsvRow(1), FALSE, TRUE),
                       Line(CsvRow(1), FALSE, FALSE)>>,
           auto_place |-> TRUE]}

\* POST /waste/return-plan bodies
ReturnPlanRequests ==
    {[undockingContainerId |-> "cA", undockingDate |-> Instant(0), maxWeight |-> w] :
        w \in {0, CsvRow(1).mass, CsvRow(1).mass + CsvRow(MaxItems).mass}}
    \cup {[undockingContainerId |-> UnknownId, undockingDate |-> Instant(0),
           maxWeight |-> CsvRow(1).mass + CsvRow(MaxItems).mass],
          [undockingContainerId |-> "cA", undockingDate |-> Malformed,
           maxWeight |-> CsvRow(1).mass + CsvRow(MaxItems).mass]}

\* POST /waste/complete-undocking requests: the role of the caller and the
\* body
UndockingRequests ==
    {[role |-> role, undockingContainerId |-> c, timestamp |-> Instant(0)] :
        role \in {"astronaut", "commander"}, c \in ContainerIds}
    \cup {[role |-> "commander", undockingContainerId |-> "cA", timestamp |-> Malformed]}

InitStore ==
    /\ items = ImportedStore
    /\ logs = <<>>
    /\ wall = 0
    /\ req = [op |-> "none"]
    /\ resp = NoResponse

\* place, placement request, retrieve and undocking
NextStow ==
    \/ \E r \in RetrieveRequests : RetrieveItem(r.impl, r.itemId, "u1", r.timestamp)
    \/ \E r \in PlaceRequests :
          PlaceItem(r.itemId, "u1", r.timestamp, r.containerId, r.position)
    \/ \E r \in PlacementRequests : PlaceItems(r.items, r.containers)
    \/ \E r \in UndockingRequests :
          CompleteUndocking(r.role, r.undockingContainerId, r.timestamp)

SpecStow == InitStore /\ [][NextStow]_vars

\* every operation on the store; the place requests are the well-formed ones
\* for the first position of cA, the placement requests those for the whole
\* store and both containers
NextLife ==
    \/ \E r \in RetrieveRequests : RetrieveItem(r.impl, r.itemId, "u1", r.timestamp)
    \/ \E r \in {q \in PlaceRequests : /\ q.position = Box(<<0, 0, 0>>, <<1, 1, 1>>)
                                       /\ q.itemId \in ItemIds
                                       /\ q.containerId \in ContainerIds
                                       /\ q.timestamp.iso} :
          PlaceItem(r.itemId, "u1", r.timestamp, r.containerId, r.position)
    \/ \E r \in {q \in PlacementRequests : /\ Len(q.items) = Cardinality(DOMAIN items)
                                           /\ q.containers = container_models} :
          PlaceItems(r.items, r.containers)
    \/ \E r \in SimulationRequests, utcnow \in ClockReadings :
          SimulateDays(r.numOfDays, r.toTimestamp, r.itemsToBeUsedPerDay, utcnow)
    \/ \E now \in ClockReadings : IdentifyWaste(now)
    \/ \E r \in ReturnPlanRequests :
          CreateReturnPlan(r.undockingContainerId, r.undockingDate, r.maxWeight)
    \/ \E r \in UndockingRequests :
          CompleteUndocking(r.role, r.undockingContainerId, r.timestamp)
    \/ \E r \in ImportRequests : ImportItems(r.lines, r.auto_place)

SpecLife == InitStore /\ [][NextLife]_vars

(***************************************************************************)
(* Searches over stored arrangements: up to MaxStack items, each unplaced  *)
(* or stored by place_item in a container, no two stored boxes of one      *)
(* container overlapping.                                                  *)
(***************************************************************************)
StackIds == {AllIds[k] : k \in 1..MaxStack}

\* the boxes place_item accepts for an item of depth 1 and height 1
StoredBoxes ==
    {b \in [container_id : ContainerIds, position : (0..1) \X (0..1) \X (0..1),
            width : 1..2] :
        BoxInside(b.position,
                  <<b.position[1] + b.width, b.position[2] + 1, b.position[3] + 1>>,
                  ContainerRow(b.container_id).width,
                  ContainerRow(b.container_id).depth,
                  ContainerRow(b.container_id).height)}

StoredItem(id, b) ==
    [NewItem(CsvRow(IdIndex(id))) EXCEPT !.container_id = b.container_id,
                                         !.position = b.position,
                                         !.width = b.width]

Stored(db, o) == db[o].container_id # None

NoStoredOverlap(db) ==
    \A o, q \in DOMAIN db :
        (o # q /\ Stored(db, o) /\ Stored(db, q)
              /\ db[o].container_id = db[q].container_id)
        => ~BoxesOverlap(BoxStart(db[o]), BoxEnd(db[o]), BoxStart(db[q]), BoxEnd(db[q]))

Arrangements ==
    {db \in {[id \in StackIds |-> StoredItem(id, f[id])] :
                f \in [StackIds -> StoredBoxes
                               \cup {[container_id |-> None, position |-> NoPosition,
                                      width |-> 1]}]} :
        NoStoredOverlap(db)}

InitSearch ==
    /\ items \in Arrangements
    /\ logs = <<>>
    /\ wall = 0
    /\ req = [op |-> "none"]
    /\ resp = NoResponse

NextSearch ==
    /\ resp = NoResponse
    /\ \E impl \in Impls :
          \/ \E item_id \in StackIds \cup {"zz"} : FindItem(impl, item_id, "")
          \/ \E item_name \in {"kit", "food"} : FindItem(impl, "", item_name)

SpecSearch == InitSearch /\ [][NextSearch]_vars

(***************************************************************************)
(* Claims on the placement planner.                                        *)
(***************************************************************************)
RequestContainer(id) == LastWith(req.containers, id)

\* C1: any two placements returned for the same container have boxes
\* [startCoordinates, endCoordinates) with disjoint open interiors.
C1_NoOverlapInPlacements ==
    resp.op = "placement" =>
        \A m, n \in 1..Len(resp.placements) :
            (m # n /\ resp.placements[m].containerId = resp.placements[n].containerId)
            => ~BoxesOverlap(resp.placements[m].startCoordinates,
                             resp.placements[m].endCoordinates,
                             resp.placements[n].startCoordinates,
                             resp.placements[n].endCoordinates)

\* C2: every returned placement lies wholly inside its container.
C2_PlacementsInsideContainer ==
    resp.op = "placement" =>
        \A n \in 1..Len(resp.placements) :
            LET c == RequestContainer(resp.placements[n].containerId)
            IN BoxInside(resp.placements[n].startCoordinates,
                         resp.placements[n].endCoordinates,
                         c.width, c.depth, c.height)

(***************************************************************************)
(* Claims on the stored arrangement, place and retrieve.                   *)
(***************************************************************************)
\* C3: after any sequence of placement requests, place, retrieve and
\* undocking from a store with nothing placed, any two items stored in the
\* same container have boxes with disjoint open interiors.
C3_StoredItemsDisjoint == NoStoredOverlap(items)

\* what the place request of the step asks for
PlaceOutside(r) ==
    r.containerId \in ContainerIds
    /\ ~BoxInside(r.position.startCoordinates, r.position.endCoordinates,
                  ContainerRow(r.containerId).width,
                  ContainerRow(r.containerId).depth,
                  ContainerRow(r.containerId).height)

PlaceOverlaps(db, r) ==
    \E o \in DOMAIN db \ {r.itemId} :
        /\ db[o].container_id = r.containerId
        /\ BoxesOverlap(BoxStart(db[o]), BoxEnd(db[o]),
                        r.position.startCoordinates, r.position.endCoordinates)

PlaceUnknown(db, r) ==
    r.itemId \notin DOMAIN db \/ r.containerId \notin ContainerIds \/ ~r.timestamp.iso

\* C4: place fails and leaves the rows and the log as they were when the
\* position is outside the container, strictly overlaps another stored item
\* of the container, names an unknown item or container, or carries a
\* malformed timestamp.
C4_PlaceRejected ==
    [][(req'.op = "place"
        /\ (PlaceOutside(req') \/ PlaceOverlaps(items, req') \/ PlaceUnknown(items, req')))
       => (resp'.success = FALSE /\ items' = items /\ logs' = logs)]_vars

\* a place request has been refused for overlapping a stored item
C4_Witness ==
    /\ req.op = "place"
    /\ resp.success = FALSE
    /\ ~PlaceOutside(req) /\ ~PlaceUnknown(items, req)
    /\ PlaceOverlaps(items, req)

\* C5: a successful retrieve of an item with r > 0 uses left, by either
\* class, leaves r - 1 uses, makes the item waste exactly when r - 1 = 0,
\* clears its container and position, appends one retrieval log row and
\* changes no other row.
C5_RetrieveEffects ==
    [][(req'.op = "retrieve" /\ resp'.success
        /\ items[req'.itemId].remaining_uses > 0)
       => /\ DOMAIN items' = DOMAIN items
          /\ items'[req'.itemId].remaining_uses
                = items[req'.itemId].remaining_uses - 1
          /\ items'[req'.itemId].is_waste
                = (items[req'.itemId].is_waste
                   \/ items[req'.itemId].remaining_uses - 1 = 0)
          /\ items'[req'.itemId].container_id = None
          /\ items'[req'.itemId].position = NoPosition
          /\ Len(logs') = Len(logs) + 1
          /\ SubSeq(logs', 1, Len(logs)) = logs
          /\ logs'[Len(logs')].action_type = "retrieval"
          /\ logs'[Len(logs')].item_id = req'.itemId
          /\ \A o \in DOMAIN items \ {req'.itemId} : items'[o] = items[o]]_vars

(***************************************************************************)
(* Claims on the life cycle of an item.                                    *)
(***************************************************************************)
\* C6: every row keeps 0 <= remaining_uses <= usage_limit under retrieve
\* and simulate (and the other operations of the store).
C6_UsesWithinLimit ==
    \A o \in DOMAIN items :
        0 <= items[o].remaining_uses
        /\ items[o].remaining_uses <= items[o].usage_limit

\* a simulation of MaxUses days using i1 each day has used it fewer times:
\* on a later day it had no use left
C6_Witness ==
    /\ req.op = "simulate" /\ resp.success
    /\ req.numOfDays = <<MaxUses>>
    /\ req.itemsToBeUsedPerDay = <<SimulationItem("i1", "")>>
    /\ Len(resp.itemsUsed) < MaxUses
    /\ "i1" \in DOMAIN items
    /\ items["i1"].usage_limit = 1
    /\ items["i1"].remaining_uses = 0

\* C7: no operation resets a waste flag; a waste row stays waste until
\* undocking deletes it.
C7_WasteNeverReset ==
    [][\A o \in DOMAIN items :
          items[o].is_waste
          => IF o \in DOMAIN items' THEN items'[o].is_waste
             ELSE req'.op = "undocking"]_vars

\* a waste row has been re-imported: its uses are restored, it is still waste
C7_Witness ==
    /\ req.op = "import" /\ resp.itemsImported > 0
    /\ \E n \in 1..Len(req.lines) :
          /\ ~req.lines[n].missing /\ ~req.lines[n].bad_expiry
          /\ req.lines[n].cells.itemId \in DOMAIN items
          /\ items[req.lines[n].cells.itemId].is_waste
          /\ items[req.lines[n].cells.itemId].remaining_uses
                = items[req.lines[n].cells.itemId].usage_limit

(***************************************************************************)
(* Claims on the retrieval plans returned by find_item.                    *)
(***************************************************************************)
PlanReturned == resp.op = "search" /\ resp.found

\* the items of the steps with an action, in step order
Named(steps, action) ==
    LET picked == SelectSeq(steps, LAMBDA st : st.action = action)
    IN [n \in 1..Len(picked) |-> picked[n].itemId]

\* remove, setAside per blocker; retrieve of the target; placeBack in the
\* reverse of the setAside order
PlanShape(steps, target) ==
    LET aside == Named(steps, "setAside")
        k == Len(aside)
    IN /\ Len(steps) = 3 * k + 1
       /\ \A j \in 1..k : /\ steps[2 * j - 1].action = "remove"
                          /\ steps[2 * j].action = "setAside"
                          /\ steps[2 * j - 1].itemId = steps[2 * j].itemId
       /\ steps[2 * k + 1].action = "retrieve"
       /\ steps[2 * k + 1].itemId = target
       /\ \A j \in 1..k : /\ steps[2 * k + 1 + j].action = "placeBack"
                          /\ steps[2 * k + 1 + j].itemId = aside[k + 1 - j]

\* a crew carrying out the steps: a removed item is in hand until it is set
\* aside, a placed-back item returns to the position it was removed from
RECURSIVE Carried(_, _)
Carried(c, steps) ==
    IF steps = <<>> THEN c
    ELSE LET st == steps[1]
             next ==
                IF st.action = "remove" /\ st.itemId \in c.inside /\ c.hand = None
                THEN [c EXCEPT !.inside = @ \ {st.itemId}, !.hand = st.itemId]
                ELSE IF st.action = "setAside" /\ c.hand = st.itemId
                THEN [c EXCEPT !.aside = @ \cup {st.itemId}, !.hand = None]
                ELSE IF st.action = "retrieve" /\ st.itemId \in c.inside
                THEN [c EXCEPT !.inside = @ \ {st.itemId}]
                ELSE IF st.action = "placeBack" /\ st.itemId \in c.aside
                THEN [c EXCEPT !.aside = @ \ {st.itemId}, !.inside = @ \cup {st.itemId}]
                ELSE [c EXCEPT !.ok = FALSE]
         IN Carried(next, Tail(steps))

Housed(db, container_id) == {o \in DOMAIN db : db[o].container_id = container_id}

\* C8: in every plan from find_item each blocker's remove is followed at
\* once by its setAside, all before the one retrieve of the target, and the
\* placeBack steps name the set-aside items in reverse order; carrying the
\* plan out leaves the container with its items minus the target.
C8_PlanRestoresContainer ==
    PlanReturned =>
        /\ PlanShape(resp.retrievalSteps, resp.item.itemId)
        /\ Carried([inside |-> Housed(items, resp.item.containerId), aside |-> {},
                    hand |-> None, ok |-> TRUE], resp.retrievalSteps)
             = [inside |-> Housed(items, resp.item.containerId) \ {resp.item.itemId},
                aside |-> {}, hand |-> None, ok |-> TRUE]

\* a plan that sets two items aside
C8_Witness ==
    /\ PlanReturned
    /\ Len(Named(resp.retrievalSteps, "placeBack")) = 2
    /\ Len(resp.retrievalSteps) = 7

\* y strictly before the target, x-z projections strictly overlapping
DirectBlocker(db, o, target) ==
    /\ o # target
    /\ db[o].container_id = db[target].container_id
    /\ position_depth(db[o]) < position_depth(db[target])
    /\ IntervalsOverlap(BoxStart(db[o])[1], BoxEnd(db[o])[1],
                        BoxStart(db[target])[1], BoxEnd(db[target])[1])
    /\ IntervalsOverlap(BoxStart(db[o])[3], BoxEnd(db[o])[3],
                        BoxStart(db[target])[3], BoxEnd(db[target])[3])

\* y rests on x: y.z = x.z + x.h and the footprints share at least half of
\* y's footprint
RestsOn(db, y, x) ==
    /\ db[y].container_id = db[x].container_id
    /\ position_height(db[y]) = position_height(db[x]) + db[x].height
    /\ 2 * Overlap1D(BoxStart(db[y])[1], BoxEnd(db[y])[1],
                     BoxStart(db[x])[1], BoxEnd(db[x])[1])
         * Overlap1D(BoxStart(db[y])[2], BoxEnd(db[y])[2],
                     BoxStart(db[x])[2], BoxEnd(db[x])[2])
       >= db[y].width * db[y].depth

\* least fixed point of "blockers and the items resting on any element"
RECURSIVE Resting(_, _, _)
Resting(db, S, target) ==
    LET more == {y \in Housed(db, db[target].container_id) \ (S \cup {target}) :
                    \E x \in S : RestsOn(db, y, x)}
    IN IF more = {} THEN S ELSE Resting(db, S \cup more, target)

SupportClosure(db, target) ==
    Resting(db, {o \in DOMAIN db : Stored(db, o) /\ DirectBlocker(db, o, target)},
            target)

Removed == SeqToSet(Named(resp.retrievalSteps, "remove"))

\* C9: every removed item is stored in the target's container and is a
\* direct blocker or rests, through any number of items, on one; the target
\* and items of other containers are never removed; a target at y = 0 gets
\* the plan [retrieve(target)].
C9_RemovedAreBlockers ==
    PlanReturned =>
        /\ Removed \subseteq SupportClosure(items, resp.item.itemId)
        /\ resp.item.itemId \notin Removed
        /\ \A o \in Removed : items[o].container_id = resp.item.containerId
        /\ position_depth(items[resp.item.itemId]) = 0
           => /\ Len(resp.retrievalSteps) = 1
              /\ resp.retrievalSteps[1].action = "retrieve"
              /\ resp.retrievalSteps[1].itemId = resp.item.itemId

\* a plan that removes one item and leaves another item of the container,
\* in front of the target row but beside it, in place
C9_Witness ==
    /\ PlanReturned
    /\ Removed # {}
    /\ \E o \in Housed(items, resp.item.containerId) \ (Removed \cup {resp.item.itemId}) :
          position_depth(items[o]) < position_depth(items[resp.item.itemId])

\* C10: the removed set is the support-closure of the direct blockers: every
\* direct blocker and, to any depth, every item resting on a removed item.
C10_RemovedIsSupportClosure ==
    PlanReturned => Removed = SupportClosure(items, resp.item.itemId)

(***************************************************************************)
(* Claims on the return plan.                                              *)
(***************************************************************************)
RECURSIVE SumSeq(_)
SumSeq(s) == IF s = <<>> THEN 0 ELSE s[1] + SumSeq(Tail(s))

\* a return-plan request answered with a plan
ReturnPlanProduced == resp.op = "returnPlan" /\ resp.success

SelectedIds == [n \in 1..Len(resp.returnPlan) |-> resp.returnPlan[n].itemId]

MassesOf(db, ids) == [n \in 1..Len(ids) |-> db[ids[n]].mass]

VolumesOf(db, ids) ==
    [n \in 1..Len(ids) |-> db[ids[n]].width * db[ids[n]].depth * db[ids[n]].height]

InteriorVolume(container_id) ==
    ContainerRow(container_id).width * ContainerRow(container_id).depth
    * ContainerRow(container_id).height

Heaviest(db, S) ==
    CHOOSE o \in S : \A q \in S :
        \/ db[o].mass > db[q].mass
        \/ db[o].mass = db[q].mass /\ IdIndex(o) <= IdIndex(q)

\* the greedy baseline: scan by descending mass, take what still fits
RECURSIVE GreedyBaseline(_, _, _, _, _, _)
GreedyBaseline(db, S, weight, volume, maxWeight, capacity) ==
    IF S = {} THEN <<>>
    ELSE LET o == Heaviest(db, S)
             v == db[o].width * db[o].depth * db[o].height
         IN IF weight + db[o].mass <= maxWeight /\ volume + v <= capacity
            THEN <<o>> \o GreedyBaseline(db, S \ {o}, weight + db[o].mass,
                                         volume + v, maxWeight, capacity)
            ELSE GreedyBaseline(db, S \ {o}, weight, volume, maxWeight, capacity)

WasteIds(db) == {o \in DOMAIN db : db[o].is_waste}

\* a return-plan request with a date that parses and a known container
ReturnPlanAsked ==
    /\ req.op = "returnPlan"
    /\ req.undockingDate.iso
    /\ req.undockingContainerId \in ContainerIds

\* C12: the items selected by create_return_plan are the greedy baseline
\* over all waste items: scanned by descending mass, an item is selected
\* exactly when, at its turn, its mass keeps the total within maxWeight and
\* its volume keeps the total within the undocking container's volume.
C12_SelectionIsGreedy ==
    ReturnPlanAsked =>
        /\ resp.success
        /\ SelectedIds = GreedyBaseline(items, WasteIds(items), 0, 0, req.maxWeight,
                                        InteriorVolume(req.undockingContainerId))

(***************************************************************************)
(* Claims on undocking.                                                    *)
(***************************************************************************)
\* the rows of container c flagged waste
WasteIn(db, c) == {o \in DOMAIN db : db[o].is_waste /\ db[o].container_id = c}

\* the log rows a step appends
Appended(before, after) == SubSeq(after, Len(before) + 1, Len(after))

C14_UndockingNeedsCommander ==
    [][req'.op = "undocking" =>
          IF has_permission(req'.role, "commander")
          THEN resp'.success
          ELSE ~resp'.success /\ items' = items /\ logs' = logs]_vars

(***************************************************************************)
(* Claims on the time simulation.                                          *)
(***************************************************************************)
\* the logical clock a simulate step starts from: the latest log timestamp,
\* or the wall clock it reads when there is no log
ClockBefore == IF logs = <<>> THEN wall' ELSE LatestTimestamp(logs)

\* a simulate step whose toTimestamp is an instant not later than the clock
SimulateNotLater ==
    /\ req'.op = "simulate"
    /\ req'.toTimestamp # <<>>
    /\ req'.toTimestamp[1].iso
    /\ req'.toTimestamp[1].t <= ClockBefore

\* C15: the simulation never rewinds the logical clock, and a simulate call
\* whose toTimestamp is not later than the clock advances it by exactly one
\* day, processing exactly one day.
C15_NeverRewinds ==
    [][/\ (req'.op = "simulate" /\ logs' # <<>>)
            => LatestTimestamp(logs') >= ClockBefore
       /\ SimulateNotLater =>
            /\ resp'.success
            /\ Len(logs') = Len(logs) + 1
            /\ LatestTimestamp(logs') = ClockBefore + TicksPerDay
            /\ resp'.newDate = ClockBefore + TicksPerDay]_vars

\* the usage entries of a request that resolve to the item o of the store
EntriesOf(db, usage, o) == {n \in 1..Len(usage) : UsedRow(db, usage[n]) = o}

\* the records of a response list that name the item o
RecordsOf(list, o) == {n \in 1..Len(list) : list[n].itemId = o}

\* C16: on each simulated day every usage entry that resolves to an existing
\* item with uses left takes exactly one use from it; an item that reaches
\* zero is flagged as waste and recorded in itemsDepletedToday; an entry whose
\* item does not exist or has no use left changes nothing and records nothing.
C16_UsagePerDay ==
    [][(req'.op = "simulate" /\ resp'.success) =>
          LET days == Len(logs') - Len(logs)
              usage == req'.itemsToBeUsedPerDay
          IN /\ DOMAIN items' = DOMAIN items
             /\ \A o \in DOMAIN items :
                   LET asked == days * Cardinality(EntriesOf(items, usage, o))
                       taken == Min(asked, items[o].remaining_uses)
                   IN /\ items'[o].remaining_uses = items[o].remaining_uses - taken
                      /\ Cardinality(RecordsOf(resp'.itemsUsed, o)) = taken
                      /\ (taken > 0 /\ items'[o].remaining_uses = 0)
                            => /\ items'[o].is_waste
                               /\ Cardinality(RecordsOf(resp'.itemsDepletedToday, o)) = 1
                      /\ (taken = 0 \/ items'[o].remaining_uses > 0)
                            => RecordsOf(resp'.itemsDepletedToday, o) = {}
             /\ \A n \in 1..Len(resp'.itemsUsed) :
                   resp'.itemsUsed[n].itemId \in DOMAIN items
             /\ \A n \in 1..Len(resp'.itemsDepletedToday) :
                   resp'.itemsDepletedToday[n].itemId \in DOMAIN items]_vars

\* a simulation of several days whose usage list named an item twice a day
\* and an unknown item never: the item ran out and was recorded as depleted
C16_Witness ==
    /\ resp.op = "simulate"
    /\ resp.success
    /\ Len(req.itemsToBeUsedPerDay) = 2
    /\ Len(resp.itemsUsed) = 2
    /\ Len(resp.itemsDepletedToday) = 1
    /\ items[resp.itemsDepletedToday[1].itemId].remaining_uses = 0
    /\ items[resp.itemsDepletedToday[1].itemId].is_waste

\* C17: the expiry sweep of each simulated day flags and records exactly the
\* items whose expiry date is not later than that day and that are not waste
\* at that moment; an item that is already waste, from before the call or from
\* an earlier day of the call, is not recorded, so no item appears in
\* itemsExpired more than once in one simulate call.
C17_ExpirySweepOnce ==
    [][(req'.op = "simulate" /\ resp'.success) =>
          LET expired == resp'.itemsExpired
              last_day == LatestTimestamp(logs')
          IN /\ \A o \in DOMAIN items :
                   /\ Cardinality(RecordsOf(expired, o)) <= 1
                   /\ items[o].is_waste => RecordsOf(expired, o) = {}
                   /\ RecordsOf(expired, o) # {}
                         => /\ items[o].expiry_date # <<>>
                            /\ items[o].expiry_date[1] <= last_day
                            /\ items'[o].is_waste
                   /\ (/\ items[o].expiry_date # <<>>
                       /\ items[o].expiry_date[1] <= last_day
                       /\ ~items[o].is_waste
                       /\ EntriesOf(items, req'.itemsToBeUsedPerDay, o) = {})
                         => RecordsOf(expired, o) # {}
             /\ \A n \in 1..Len(expired) : expired[n].itemId \in DOMAIN items]_vars

(***************************************************************************)
(* Claims on the answer of the planner to unplaceable items and to invalid *)
(* requests.                                                               *)
(***************************************************************************)
PlacedIds == {resp.placements[n].itemId : n \in 1..Len(resp.placements)}

\* every orientation of the item exceeds every container tried for it
FitsNowhere(item, cdata) ==
    \A k \in SeqToSet(PreferredContainers(item, cdata)) :
       \A n \in 1..Len(Orientations(item)) :
          \/ Orientations(item)[n][1] > cdata.byId[k].width
          \/ Orientations(item)[n][2] > cdata.byId[k].depth
          \/ Orientations(item)[n][3] > cdata.byId[k].height

\* the items of a request at the indices K, in the order of the request
ItemsAt(reqItems, K) ==
    Values(SelectSeq([n \in 1..Len(reqItems) |-> <<n, reqItems[n]>>],
                     LAMBDA p : p[1] \in K))

\* C18: the planner never fails because of an unplaceable item: the request
\* succeeds, an item that fits in no candidate container in any orientation
\* is absent from placements, and the other items are placed exactly as they
\* are when the request is made without the items that were left out.
C18_UnplaceableLeftOut ==
    resp.op = "placement" =>
       /\ resp.success
       /\ \E K \in SUBSET (1..Len(req.items)) :
             /\ Cardinality(K) = Len(resp.placements)
             /\ \A n \in K :
                   ~FitsNowhere(req.items[n], ContainersData(req.containers))
             /\ place_items(ImportedStore, ItemsAt(req.items, K),
                            req.containers).placements = resp.placements

\* a request of three items of which one fits in no container, one found no
\* free slot and one was placed
C18_Witness ==
    /\ resp.op = "placement"
    /\ Len(req.items) = 3
    /\ Len(resp.placements) = 1
    /\ \E n \in 1..3 : FitsNowhere(req.items[n], ContainersData(req.containers))
    /\ \E n \in 1..3 :
          /\ ~FitsNowhere(req.items[n], ContainersData(req.containers))
          /\ req.items[n].itemId \notin PlacedIds

\* a request with an item of negative dimension or with an id used twice
InvalidPlacementRequest ==
    \/ \E n \in 1..Len(req.items) :
          req.items[n].width < 0 \/ req.items[n].depth < 0 \/ req.items[n].height < 0
    \/ \E n, m \in 1..Len(req.items) :
          n # m /\ req.items[n].itemId = req.items[m].itemId

\* C19: a placement request with an item of negative dimension, or with two
\* items of the same id, is rejected as invalid: it is answered with an error,
\* yields no placement and leaves the store as it was.
C19_InvalidRequestRejected ==
    (resp.op = "placement" /\ InvalidPlacementRequest) =>
       /\ ~resp.success
       /\ resp.placements = <<>>
       /\ items = ImportedStore

(***************************************************************************)
(* Placement requests against a stored arrangement: the client asks for a  *)
(* slot for one item the store holds unplaced, with the containers of the  *)
(* store.                                                                  *)
(***************************************************************************)
NextStored ==
    /\ resp = NoResponse
    /\ \E o \in {q \in DOMAIN items : ~Stored(items, q)} :
          PlaceItems(ItemModels(items, <<o>>), container_models)

SpecStored == InitSearch /\ [][NextStored]_vars

\* the cells of container c taken by the stored items of db other than those
\* in the set without
StoredCells(db, c, without) ==
    UNION {Cells(db[o].position, db[o].width, db[o].depth, db[o].height,
                 ContainerRow(c).width, ContainerRow(c).depth, ContainerRow(c).height) :
              o \in {q \in DOMAIN db \ without : db[q].container_id = c}}

\* some orientation of the item has a free slot inside container c
HasSlot(item, c, taken) ==
    \E n \in 1..Len(Orientations(item)) :
       LET w == Orientations(item)[n][1]
           d == Orientations(item)[n][2]
           h == Orientations(item)[n][3]
       IN \E p \in (0..(ContainerRow(c).width - w)) \X (0..(ContainerRow(c).depth - d))
                      \X (0..(ContainerRow(c).height - h)) :
             Cells(p, w, d, h, ContainerRow(c).width, ContainerRow(c).depth,
                   ContainerRow(c).height) \cap taken = {}

\* the stored items of strictly lower priority whose removal frees a slot for
\* the new item in their container while another container has a slot for them
Victims(db, new_item, cands) ==
    {v \in DOMAIN db :
        /\ Stored(db, v)
        /\ db[v].priority < new_item.priority
        /\ db[v].container_id \in cands
        /\ HasSlot(new_item, db[v].container_id,
                   StoredCells(db, db[v].container_id, {v}))
        /\ \E alt \in ContainerIds \ {db[v].container_id} :
              HasSlot(db[v], alt, StoredCells(db, alt, {}))}

\* C20: when the new item fits in no candidate container but a placed item of
\* strictly lower priority can make room for it and fits in another
\* container, the planner returns the new item's placement and exactly the
\* three steps remove(victim), place(new item), place(victim); the victim has
\* the lowest priority among the possible ones, and no item of equal or
\* higher priority is moved.
C20_SingleSwap ==
    [][(req'.op = "placement" /\ Len(req'.items) = 1) =>
          LET new_item == req'.items[1]
              cands == SeqToSet(PreferredContainers(new_item,
                                                    ContainersData(req'.containers)))
              victims == Victims(items, new_item, cands)
              steps == resp'.rearrangements
          IN /\ \A n \in 1..Len(steps) :
                   steps[n].itemId \in DOMAIN items =>
                      (steps[n].itemId = new_item.itemId
                          \/ items[steps[n].itemId].priority < new_item.priority)
             /\ ((\A c \in cands : ~HasSlot(new_item, c, StoredCells(items, c, {})))
                    /\ victims # {})
                  => /\ Len(resp'.placements) = 1
                     /\ resp'.placements[1].itemId = new_item.itemId
                     /\ Len(steps) = 3
                     /\ steps[1].action = "remove" /\ steps[1].itemId \in victims
                     /\ \A v \in victims :
                           items[steps[1].itemId].priority <= items[v].priority
                     /\ steps[2].action = "place"
                     /\ steps[2].itemId = new_item.itemId
                     /\ steps[3].action = "place"
                     /\ steps[3].itemId = steps[1].itemId]_vars

(***************************************************************************)
(* Claims on the candidate containers and the slot search of the planner.  *)
(***************************************************************************)
\* the zones of the containers of the request
RequestZones == {req.containers[n].zone : n \in 1..Len(req.containers)}

\* the zone the request gives to the container of a placement
ZoneOfPlacement(placement) ==
    LET n == CHOOSE m \in 1..Len(req.containers) :
                req.containers[m].containerId = placement.containerId
    IN req.containers[n].zone

\* C21: a direct placement lands in a candidate container: a container of the
\* request whose zone is the item's preferredZone, or any container of the
\* request when none has that zone; an item is placed outside its preferred
\* zone only when the request has no container of that zone.
C21_PlacedInCandidate ==
    resp.op = "placement" =>
       \A n \in 1..Len(resp.placements) :
          LET placement == resp.placements[n]
          IN /\ \E m \in 1..Len(req.containers) :
                   req.containers[m].containerId = placement.containerId
             /\ \E k \in 1..Len(req.items) :
                   /\ req.items[k].itemId = placement.itemId
                   /\ \/ ZoneOfPlacement(placement) = req.items[k].preferredZone
                      \/ req.items[k].preferredZone \notin RequestZones

\* a request that placed one item in a container of its preferred zone and
\* another, whose zone no container has, in a container of another zone
C21_Witness ==
    /\ resp.op = "placement"
    /\ \E n, m \in 1..Len(resp.placements) :
          /\ \E k \in 1..Len(req.items) :
                /\ req.items[k].itemId = resp.placements[n].itemId
                /\ req.items[k].preferredZone = ZoneOfPlacement(resp.placements[n])
          /\ \E k \in 1..Len(req.items) :
                /\ req.items[k].itemId = resp.placements[m].itemId
                /\ req.items[k].preferredZone \notin RequestZones

(***************************************************************************)
(* Two requests in flight.  The routes are plain functions, which FastAPI  *)
(* runs on worker threads; each call builds its own service and session    *)
(* (RetrievalService.__init__), nothing locks a container or a row, and    *)
(* the engine is SQLite with the default settings (models/database.py).    *)
(* A handler is two steps: its queries and checks, which load the row into *)
(* its session, and its commit, which writes the columns the handler       *)
(* changed on the loaded row.  req holds the two requests and the store    *)
(* they arrive at, resp where each handler is and what its session holds.  *)
(***************************************************************************)
RaceCall(kind, item_id, position) ==
    [kind |-> kind, itemId |-> item_id, userId |-> "u1", timestamp |-> Instant(0),
     containerId |-> "cA", position |-> position]

\* two place requests into container cA, or two retrieve requests for one item
RacePairs ==
    {<<RaceCall("place", o, p), RaceCall("place", q, r)>> :
        o \in ItemIds, q \in ItemIds, p \in PlacePositions, r \in PlacePositions}
    \cup {<<RaceCall("retrieve", o, Box(<<0, 0, 0>>, <<0, 0, 0>>)),
            RaceCall("retrieve", o, Box(<<0, 0, 0>>, <<0, 0, 0>>))>> : o \in ItemIds}

InitRace ==
    /\ items \in {ImportedStore,
                  [ImportedStore EXCEPT
                      !["i1"] = Placed(@, "cA", Box(<<0, 0, 0>>, <<1, 1, 1>>))]}
    /\ logs = <<>>
    /\ wall = 0
    /\ \E calls \in RacePairs :
          req = [op |-> "race", calls |-> calls, store |-> items]
    /\ resp = [op |-> "race",
               sessions |-> [n \in 1..2 |-> [pc |-> "start", item |-> None,
                                             success |-> FALSE]]]

\* the queries and checks of a handler, up to its last early return
Load(n) ==
    LET call == req.calls[n]
        ok == IF call.kind = "place"
              THEN PlaceAccepted(items, call.itemId, call.timestamp,
                                 call.containerId, call.position)
              ELSE fromisoformat(call.timestamp) # <<>> /\ call.itemId \in DOMAIN items
    IN /\ resp.sessions[n].pc = "start"
       /\ resp' = [resp EXCEPT !.sessions[n] =
                      IF ok THEN [pc |-> "loaded", item |-> items[call.itemId],
                                  success |-> FALSE]
                      ELSE [pc |-> "done", item |-> None, success |-> FALSE]]
       /\ UNCHANGED <<items, logs, wall, req>>

\* the UPDATE of a flush: the columns whose value differs from the loaded one
Flushed(current, loaded, changed) ==
    [f \in DOMAIN current |-> IF changed[f] # loaded[f] THEN changed[f] ELSE current[f]]

\* the assignments of a handler, its log row and "self.db.commit()"
Commit(n) ==
    LET call == req.calls[n]
        loaded == resp.sessions[n].item
        changed == IF call.kind = "place"
                   THEN Placed(loaded, call.containerId, call.position)
                   ELSE Retrieved(loaded)
    IN /\ resp.sessions[n].pc = "loaded"
       /\ items' = [items EXCEPT ![call.itemId] = Flushed(@, loaded, changed)]
       /\ logs' = Append(logs,
                     LogRow(fromisoformat(call.timestamp)[1], call.userId,
                            IF call.kind = "place" THEN "placement" ELSE "retrieval",
                            call.itemId, loaded.container_id,
                            IF call.kind = "place" THEN call.containerId ELSE None,
                            None))
       /\ resp' = [resp EXCEPT !.sessions[n] =
                      [pc |-> "done", item |-> None, success |-> TRUE]]
       /\ UNCHANGED <<wall, req>>

NextRace == \E n \in 1..2 : Load(n) \/ Commit(n)

SpecRace == InitRace /\ [][NextRace]_vars

\* the store after a request has run alone from the store db
RanAlone(db, call) ==
    IF call.kind = "place"
    THEN (IF PlaceAccepted(db, call.itemId, call.timestamp, call.containerId,
                           call.position)
          THEN [db EXCEPT ![call.itemId] = Placed(@, call.containerId, call.position)]
          ELSE db)
    ELSE [db EXCEPT ![call.itemId] = Retrieved(@)]

BothDone ==
    /\ resp.op = "race"
    /\ \A n \in 1..2 : resp.sessions[n].pc = "done"

\* C22: two concurrent requests that write to the same container are
\* serializable: whatever the interleaving of their reads and commits, the
\* final store is the one some serial order of the two requests produces; two
\* place requests do not both succeed with overlapping boxes, and two
\* retrieves of an item with r >= 2 uses leave r - 2.
C22_Serializable ==
    BothDone =>
       \/ items = RanAlone(RanAlone(req.store, req.calls[1]), req.calls[2])
       \/ items = RanAlone(RanAlone(req.store, req.calls[2]), req.calls[1])

(***************************************************************************)
(* A placement request item by item.  place_items saves each placement as  *)
(* soon as it is made: _save_placement_to_db commits inside the loop over  *)
(* the items, and when the save raises it rolls back that one save, prints *)
(* the error and lets the loop go on.  resp holds the loop's position and  *)
(* its local state while the handler runs, and its answer afterwards; the  *)
(* handler can be ended between two items (its worker is stopped, the      *)
(* process dies).                                                          *)
(***************************************************************************)
Placing ==
    IF resp = NoResponse
    THEN [op |-> "placing", n |-> 1, cdata |-> ContainersData(req.containers),
          placements |-> <<>>, rearrangements |-> <<>>]
    ELSE resp

\* one turn of "for item in items_data"; saved tells whether the commit of
\* _save_placement_to_db went through
PlaceNext(saved) ==
    LET itemsData == SortItemsData([k \in 1..Len(req.items) |->
                                       _convert_item_to_internal(req.items[k])])
        out == PlaceLoop(SubSeq(itemsData, 1, Placing.n), Placing.n,
                         [cdata |-> Placing.cdata, placements |-> Placing.placements,
                          rearrangements |-> Placing.rearrangements, db |-> items])
    IN /\ Placing.op = "placing"
       /\ items' = IF saved THEN out.db ELSE items
       /\ resp' = IF Placing.n = Len(itemsData)
                  THEN [op |-> "placement", success |-> TRUE,
                        placements |-> out.placements,
                        rearrangements |-> out.rearrangements]
                  ELSE [op |-> "placing", n |-> Placing.n + 1, cdata |-> out.cdata,
                        placements |-> out.placements,
                        rearrangements |-> out.rearrangements]
       /\ UNCHANGED <<logs, wall, req>>

\* the handler ends between two items, without an answer
Interrupted ==
    /\ resp # NoResponse
    /\ resp.op = "placing"
    /\ resp' = [op |-> "interrupted", success |-> FALSE,
                placements |-> resp.placements]
    /\ UNCHANGED <<items, logs, wall, req>>

NextSaving == (\E saved \in BOOLEAN : PlaceNext(saved)) \/ Interrupted

SpecSaving == InitPlan /\ [][NextSaving]_vars

\* the items of the store for which the request has made a placement
PlacedInStore ==
    {resp.placements[n].itemId : n \in 1..Len(resp.placements)} \cap DOMAIN items

\* C23: a placement request is one transaction: once it has ended, the
\* placements it made for items of the store are stored all together or not
\* at all, and a request that ended without its answer has left none.
C23_AllOrNothing ==
    resp.op \in {"placement", "interrupted"} =>
       /\ \/ items = ImportedStore
          \/ \A o \in PlacedInStore : items[o] # ImportedStore[o]
       /\ resp.op = "interrupted" => items = ImportedStore

(***************************************************************************)
(* Claims on the waste scan.                                               *)
(***************************************************************************)
\* the item is expired at the instant now, or has no use left
WasteDue(item, now) ==
    \/ item.expiry_date # <<>> /\ item.expiry_date[1] < now
    \/ item.remaining_uses = 0

PlanFor(db, impl, o) ==
    IF impl = "RetrievalService" THEN _calculate_retrieval_steps(db, o)
    ELSE _calculate_optimal_retrieval_steps(db, o)

\* 0.5 * (1 - min(blockers, 20) / 20) + 0.3 * (1 - clamp(days, 0, 365) / 365)
\* + 0.2 * priority / 100, times 73000; blockers are the items the plan
\* removes, an item without expiry date has no expiry term
DisambiguationScore(db, impl, o, now) ==
    (36500 - 1825 * Min(Len(Named(PlanFor(db, impl, o), "remove")), 20))
    + (IF db[o].expiry_date # <<>>
       THEN 21900 - 60 * Max(0, Min((db[o].expiry_date[1] - now) \div TicksPerDay, 365))
       ELSE 0)
    + 146 * db[o].priority

\* C25: when several items have the searched name, find_item returns the
\* one stored in a container with the highest score 0.5 * blockers term +
\* 0.3 * expiry term + 0.2 * priority term; when none of them is stored in a
\* container it reports not found.
C25_BestScoreReturned ==
    (resp.op = "search" /\ req.itemId = "") =>
       LET cands == {o \in DOMAIN items : items[o].name = req.itemName
                                          /\ Stored(items, o)}
       IN IF cands = {} THEN ~resp.found
          ELSE /\ resp.found
               /\ resp.item.itemId \in cands
               /\ \A c \in cands :
                     DisambiguationScore(items, req.impl, resp.item.itemId, wall)
                        >= DisambiguationScore(items, req.impl, c, wall)

(***************************************************************************)
(* Claims on the order of the slot search.                                 *)
(***************************************************************************)
\* the origins at which a box w x d x h lies inside the container on free cells
FreeSlots(container, w, d, h) ==
    {p \in (0..(container.width - w)) \X (0..(container.depth - d))
           \X (0..(container.height - h)) :
        Cells(p, w, d, h, container.width, container.depth, container.height)
           \cap container.space = {}}

\* the containers as the planner holds them when it turns to the item of the
\* k-th placement of the response
ContainersBefore(k) ==
    place_items(ImportedStore,
                [n \in 1..(k - 1) |->
                    LET m == CHOOSE m \in 1..Len(req.items) :
                                req.items[m].itemId = resp.placements[n].itemId
                    IN req.items[m]],
                req.containers).cdata

\* C26: for the orientation it settles on, the slot search returns the free
\* origin that is smallest in (z, y, x) order, z most significant and x
\* varying fastest, among the origins where the oriented box lies inside the
\* container on free cells; it returns none only when there is no such origin.
C26_SlotSearchOrder ==
    (resp.op = "placement" /\ ~InvalidPlacementRequest) =>
       \A k \in 1..Len(resp.placements) :
          LET placement == resp.placements[k]
              item == req.items[CHOOSE m \in 1..Len(req.items) :
                                   req.items[m].itemId = placement.itemId]
              container == ContainersBefore(k).byId[placement.containerId]
              fitting == {n \in 1..Len(Orientations(item)) :
                             FreeSlots(container, Orientations(item)[n][1],
                                       Orientations(item)[n][2],
                                       Orientations(item)[n][3]) # {}}
              o == Orientations(item)[CHOOSE n \in fitting : \A m \in fitting : n <= m]
          IN /\ fitting # {}
             /\ placement.startCoordinates \in FreeSlots(container, o[1], o[2], o[3])
             /\ \A q \in FreeSlots(container, o[1], o[2], o[3]) :
                   \/ q = placement.startCoordinates
                   \/ LexLess(<<placement.startCoordinates[3],
                                placement.startCoordinates[2],
                                placement.startCoordinates[1]>>,
                              <<q[3], q[2], q[1]>>)

(***************************************************************************)
(* Claims on the dimensions of a stored item.                              *)
(***************************************************************************)
\* three lengths in ascending order: equal for two triples exactly when one
\* is a permutation of the other
Ascending(w, d, h) ==
    <<Min(w, Min(d, h)), w + d + h - Min(w, Min(d, h)) - Max(w, Max(d, h)),
      Max(w, Max(d, h))>>

\* C27: no place, retrieve or placement operation changes the multiset of an
\* item's three dimensions: after a successful place the stored (width,
\* depth, height) is a permutation of the dimensions before the call, and a
\* place whose end - start is not such a permutation is refused.
C27_DimensionsPermuted ==
    [][/\ \A o \in DOMAIN items \cap DOMAIN items' :
             Ascending(items'[o].width, items'[o].depth, items'[o].height)
                = Ascending(items[o].width, items[o].depth, items[o].height)
       /\ (/\ req'.op = "place"
           /\ req'.itemId \in DOMAIN items
           /\ Ascending(req'.position.endCoordinates[1]
                           - req'.position.startCoordinates[1],
                        req'.position.endCoordinates[2]
                           - req'.position.startCoordinates[2],
                        req'.position.endCoordinates[3]
                           - req'.position.startCoordinates[3])
                # Ascending(items[req'.itemId].width, items[req'.itemId].depth,
                            items[req'.itemId].height))
            => ~resp'.success]_vars

(***************************************************************************)
(* Claims on the numbering of the steps of a retrieval plan.               *)
(***************************************************************************)
\* C28: in every retrieval plan returned by find_item, for a target with k
\* blockers, the step fields are exactly 1, 2, ..., 3k + 1 in list order:
\* strictly increasing, without duplicates and without gaps.
C28_StepsNumbered ==
    PlanReturned =>
       /\ Len(resp.retrievalSteps) = 3 * Len(Named(resp.retrievalSteps, "remove")) + 1
       /\ \A n \in 1..Len(resp.retrievalSteps) : resp.retrievalSteps[n].step = n

(***************************************************************************)
(* Claims on the days a simulate call advances.                            *)
(***************************************************************************)
\* C29: every simulate call advances the logical clock by at least one day,
\* appends exactly one simulation log record per day advanced, and returns
\* as newDate the logical clock after the call, for every numOfDays and
\* every toTimestamp, one less than a day or a non-whole number of days
\* after the clock included.
C29_AdvancesByDays ==
    [][req'.op = "simulate" =>
          LET days == Len(logs') - Len(logs)
          IN /\ resp'.success
             /\ days >= 1
             /\ SubSeq(logs', 1, Len(logs)) = logs
             /\ \A j \in 1..days :
                   /\ logs'[Len(logs) + j].action_type = "simulation"
                   /\ logs'[Len(logs) + j].timestamp = ClockBefore + j * TicksPerDay
             /\ resp'.newDate = LatestTimestamp(logs')
             /\ resp'.newDate = ClockBefore + days * TicksPerDay]_vars

(***************************************************************************)
(* Claims on the return plan over the reachable stores.                    *)
(***************************************************************************)
\* C30: create_return_plan returns a plan without raising in every store the
\* other operations can produce, the stores included where a waste item is
\* in no container (an item whose last use a retrieve consumed): such an item
\* never makes the return-plan request fail.
C30_ReturnPlanNeverRaises ==
    resp.op = "returnPlan" => resp.success

====
